---------------------------- MODULE Spec2Model ----------------------------
(***************************************************************************)
(* A model of the Asset Hub XCM indexer: the block scan of                 *)
(* src/src/incoming_parser.rs (events -> incoming transfer records) and of *)
(* src/src/outgoing_parser.rs (extrinsics -> outgoing transfer records),   *)
(* with the helpers of src/src/helpers.rs they call.                       *)
(*                                                                         *)
(* A block is an input: its events, its extrinsics and the chain storage   *)
(* at that block are fixed when the scan starts.  Every storage fetch may  *)
(* fail (a network error), which is a choice made at each fetch.           *)
(***************************************************************************)
EXTENDS Integers, Sequences, FiniteSets, TLC

VARIABLES
    block_number,        \* block.number()
    events,              \* block.events(): the ordered events of the block
    extrinsics,          \* block.extrinsics(): the ordered extrinsics of the block
    pc,                  \* position of the running scan
    i,                   \* index of the next event the for loop yields
    last_issuance_event, \* incoming_parser.rs:66, None or Some(index of the event)
    in_output,           \* incoming_parser.rs:65, the Vec of incoming records
    in_log,              \* history: for each scanned event, what the loop did with it
    j,                   \* index of the next extrinsic the for loop yields
    out_output,          \* outgoing_parser.rs:94, the Vec of outgoing records
    out_log,             \* history: for each scanned extrinsic, the attempts made on it
    all_output,          \* helpers.rs:101, the Vec of get_all_transfers_at_block_hash
    fn_input,            \* the function called on its own and its arguments
    fn_result,           \* None, or Some(what the function called on its own returned)
    returned,            \* history: the results of the earlier calls on this block
    tasks,               \* cli.rs:109, the spawned tasks in the order they were spawned
    stream,              \* cli.rs:97, the items the finalized-block stream is still to yield
    output_file,         \* cli.rs:19, the --output-file option: TRUE when given
    file,                \* the pieces written to the output file, in the order of the writes
    stdout               \* the lines printed

vars == <<block_number, events, extrinsics, pc, i, last_issuance_event,
          in_output, in_log, j, out_output, out_log, all_output,
          fn_input, fn_result, returned, tasks, stream, output_file, file, stdout>>

----------------------------------------------------------------------------
(* Bounds of the model.                                                    *)

MaxEvents == 3

MaxExtrinsics == 2

MaxAssets == 2

\* The largest parents of the locations the functions are called on.
MaxParents == 3

----------------------------------------------------------------------------
(* Option and Result values.                                               *)

None == <<>>

Some(x) == <<x>>

IsSome(o) == Len(o) = 1

Unwrap(o) == o[1]

Ok(v) == [ok |-> TRUE, val |-> v]

Err(e) == [ok |-> FALSE, val |-> e]

----------------------------------------------------------------------------
(* Program constants.                                                      *)

DOT_DECIMALS == 10

AssetsPalletInstance == 50

----------------------------------------------------------------------------
(* Locations.  A junction is a tuple headed by its variant name.           *)

Parachain(id) == <<"Parachain", id>>

PalletInstance(n) == <<"PalletInstance", n>>

GeneralIndex(v) == <<"GeneralIndex", v>>

GlobalConsensus(network) == <<"GlobalConsensus", network>>

Ethereum(chain_id) == <<"Ethereum", chain_id>>

Kusama == <<"Kusama">>

AccountId32(id) == <<"AccountId32", id>>

AccountKey20(key) == <<"AccountKey20", key>>

Location(parents, interior) == [parents |-> parents, interior |-> interior]

\* The sibling parachains of the inputs: Moonbeam, LAOS.
ParaIds == {2004, 3370}

\* The 32-byte account ids of the inputs.
Accounts == {"acc_X", "acc_Y"}

----------------------------------------------------------------------------
(* helpers.rs                                                              *)

\* helpers.rs:29-31
junction_starts_with_para_id(para_id, junction) ==
    junction = Parachain(para_id)

\* helpers.rs:48: Junctions::X8, the longest interior of a location.
MaxJunctions == 8

\* A bug to tell from is_teleportable_to_sibling: only the X1 arm is there.
is_teleportable_to_sibling_x1_only(asset_id, sibling_parachain_id) ==
    IF asset_id.parents = 1 /\ Len(asset_id.interior) = 1
    THEN junction_starts_with_para_id(sibling_parachain_id, asset_id.interior[1])
    ELSE FALSE

\* helpers.rs:28-52: (1, X1..X8) with first junction Parachain(id), else false.
is_teleportable_to_sibling(asset_id, sibling_parachain_id) ==
    IF asset_id.parents = 1 /\ Len(asset_id.interior) \in 1..MaxJunctions
    THEN junction_starts_with_para_id(sibling_parachain_id, asset_id.interior[1])
    ELSE FALSE

\* Called at incoming_parser.rs:173; its body is not part of the sources at hand.
\* Modelled from the specification (4.3: the rule of 4.2 applied to the sibling
\* the message came from).
is_sibling_concrete_asset_for_message_origin(message_origin, asset_id) ==
    IF message_origin[1] = "Sibling"
    THEN is_teleportable_to_sibling(asset_id, message_origin[2])
    ELSE FALSE

\* helpers.rs:84-86: SS58 text of the account under address format 0.
convert_account_id_to_ah_address(account_id) == <<"ss58", 0, account_id>>

\* helpers.rs:88-90: SS58 text of the account under the default format (42).
convert_account_id_to_general_substrate_address(account_id) == <<"ss58", 42, account_id>>

\* helpers.rs:92-95: value / 10^decimals, kept as the quotient's two terms.  It
\* is what the function returns while 10u128.pow(decimals) does not overflow,
\* which is so for the decimals the storage of the scans holds;
\* to_decimal_f64_u128 computes the factor.
to_decimal_f64(value, decimals) == [value |-> value, decimals |-> decimals]

----------------------------------------------------------------------------
(* Chain storage at the block: the two metadata maps.  A stored name is    *)
(* bytes, which may not be UTF-8.                                          *)

Metadata(text, utf8, decimals) == [name |-> [text |-> text, utf8 |-> utf8], decimals |-> decimals]

\* Assets.Metadata: 1984 is Tether, 1337 is USD Coin, 666 has a name that is not UTF-8.
AssetsMetadataStorage(asset_id) ==
    CASE asset_id = 1984 -> Some(Metadata("Tether USD", TRUE, 6))
      [] asset_id = 1337 -> Some(Metadata("USD Coin", TRUE, 6))
      [] asset_id = 666 -> Some(Metadata("", FALSE, 2))
      [] OTHER -> None

\* ForeignAssets.Metadata: (1, X1(Parachain(3370))) is LAOS.
ForeignAssetsMetadataStorage(asset_id) ==
    CASE asset_id = Location(1, <<Parachain(3370)>>) -> Some(Metadata("LAOS", TRUE, 18))
      [] asset_id = Location(2, <<GlobalConsensus(Ethereum(1))>>) -> Some(Metadata("", FALSE, 18))
      [] OTHER -> None

\* The outcome of one storage_api.fetch: the stored value, or a fetch error.
FetchOutcomes == {"fetched", "fetch_error"}

\* helpers.rs:54-67
extract_asset_metadata_values(fetch, asset_id) ==
    IF fetch = "fetch_error" THEN Err("Subxt")
    ELSE LET asset_metadata == AssetsMetadataStorage(asset_id)
             decimals == IF IsSome(asset_metadata) THEN Unwrap(asset_metadata).decimals ELSE 0
             asset_name ==
                 IF IsSome(asset_metadata)
                 THEN IF Unwrap(asset_metadata).name.utf8
                      THEN <<Unwrap(asset_metadata).name.text>>
                      ELSE <<"Asset id: ", asset_id>>
                 ELSE <<"Asset Id: ", asset_id>>
         IN Ok([asset_name |-> asset_name, decimals |-> decimals])

\* helpers.rs:69-82
extract_foreign_asset_metadata_values(fetch, asset_id) ==
    IF fetch = "fetch_error" THEN Err("Subxt")
    ELSE LET asset_metadata == ForeignAssetsMetadataStorage(asset_id)
             decimals == IF IsSome(asset_metadata) THEN Unwrap(asset_metadata).decimals ELSE 0
             asset_name ==
                 IF IsSome(asset_metadata) /\ Unwrap(asset_metadata).name.utf8
                 THEN <<Unwrap(asset_metadata).name.text>>
                 ELSE <<"Asset location: ", asset_id>>
         IN Ok([asset_name |-> asset_name, decimals |-> decimals])

----------------------------------------------------------------------------
(* The events of a block.  An item of the event iterator is Ok(event) or   *)
(* an error (ok = FALSE); an event has a phase, a pallet name, a variant   *)
(* name and fields that as_event may fail to decode (decodes = FALSE).     *)
(* The fields an event kind does not have hold a default.                  *)

NoLocation == Location(0, <<>>)

NoOrigin == <<"Here">>

Event(phase, pallet, variant, decodes, who, amount, asset_id, loc, origin, success) ==
    [ok |-> TRUE, phase |-> phase, pallet |-> pallet, variant |-> variant,
     decodes |-> decodes, who |-> who, amount |-> amount, asset_id |-> asset_id,
     loc |-> loc, origin |-> origin, success |-> success]

ErrorEvent ==
    [ok |-> FALSE, phase |-> "", pallet |-> "", variant |-> "",
     decodes |-> FALSE, who |-> "", amount |-> 0, asset_id |-> 0,
     loc |-> NoLocation, origin |-> NoOrigin, success |-> FALSE]

\* balances::events::Minted { who, amount }
Minted(phase, decodes, who, amount) ==
    Event(phase, "Balances", "Minted", decodes, who, amount, 0, NoLocation, NoOrigin, FALSE)

\* assets::events::Issued { asset_id, owner, amount }
AssetsIssued(phase, asset_id, owner, amount) ==
    Event(phase, "Assets", "Issued", TRUE, owner, amount, asset_id, NoLocation, NoOrigin, FALSE)

\* foreign_assets::events::Issued { asset_id, owner, amount }
ForeignAssetsIssued(phase, loc, owner, amount) ==
    Event(phase, "ForeignAssets", "Issued", TRUE, owner, amount, 0, loc, NoOrigin, FALSE)

\* message_queue::events::Processed { origin, success, .. }
Processed(phase, decodes, origin, success) ==
    Event(phase, "MessageQueue", "Processed", decodes, "", 0, 0, NoLocation, origin, success)

\* Any event the scan has no arm for.
Deposit(phase) ==
    Event(phase, "Balances", "Deposit", TRUE, "acc_X", 5, 0, NoLocation, NoOrigin, FALSE)

Parent == <<"Parent">>

Here == <<"Here">>

Sibling(id) == <<"Sibling", id>>

\* The events a block is built from.
EventSet ==
    { ErrorEvent,
      Deposit("Finalization"),
      Minted("ApplyExtrinsic", TRUE, "acc_X", 11),
      Processed("Initialization", TRUE, Parent, TRUE),
      Minted("Finalization", TRUE, "acc_X", 12),
      Minted("Finalization", TRUE, "acc_Y", 13),
      Minted("Finalization", FALSE, "acc_X", 14),
      AssetsIssued("Finalization", 1984, "acc_Y", 15),
      ForeignAssetsIssued("Finalization", Location(1, <<Parachain(2004)>>), "acc_X", 16),
      ForeignAssetsIssued("Finalization", Location(1, <<Parachain(3370)>>), "acc_Y", 17),
      Processed("Finalization", TRUE, Parent, TRUE),
      Processed("Finalization", TRUE, Sibling(2004), TRUE),
      Processed("Finalization", TRUE, Here, TRUE),
      Processed("Finalization", TRUE, Sibling(2004), FALSE),
      Processed("Finalization", FALSE, Parent, TRUE) }

BlockNumbers == {8900358}

SeqsUpTo(S, n) == UNION {[1..k -> S] : k \in 0..n}

----------------------------------------------------------------------------
(* incoming_parser.rs                                                      *)

\* EventDetails::as_event::<T>(): Ok(None) when the event is not a T, an error
\* when its fields do not decode, Ok(Some(fields)) otherwise.
as_event(event, pallet, variant) ==
    IF event.pallet # pallet \/ event.variant # variant THEN Ok(None)
    ELSE IF ~event.decodes THEN Err("Decode")
    ELSE Ok(Some(event))

\* Result::ok() followed by Option::flatten()
ok_flatten(result) == IF result.ok THEN result.val ELSE None

\* The result of generate_xcm_received_payload, with the number of storage
\* fetches it made.
Payload(ok, val, fetches) == [ok |-> ok, val |-> val, fetches |-> fetches]

XcmIncomingTransfer(bn, origin_chain, receiver, asset, amount, transfer_type) ==
    [block_number |-> bn, origin_chain |-> origin_chain, receiver |-> receiver,
     asset |-> asset, amount |-> amount, transfer_type |-> transfer_type]

\* incoming_parser.rs:150-161, the (Sibling, Assets.Issued) arm
received_local_asset(fetch, bn, message_origin, issue_event) ==
    LET metadata == extract_asset_metadata_values(fetch, issue_event.asset_id)
    IN IF ~metadata.ok THEN Payload(FALSE, metadata.val, 1)
       ELSE Payload(TRUE,
                XcmIncomingTransfer(bn, message_origin,
                    convert_account_id_to_ah_address(issue_event.who),
                    metadata.val.asset_name,
                    to_decimal_f64(issue_event.amount, metadata.val.decimals),
                    "Reserve"), 1)

\* incoming_parser.rs:162-187, the (Sibling, ForeignAssets.Issued) arm
received_foreign_asset(fetch, bn, message_origin, issue_event) ==
    LET metadata == extract_foreign_asset_metadata_values(fetch, issue_event.loc)
        transfer_type ==
            IF is_sibling_concrete_asset_for_message_origin(message_origin, issue_event.loc)
            THEN "Teleport" ELSE "Reserve"
    IN IF ~metadata.ok THEN Payload(FALSE, metadata.val, 1)
       ELSE Payload(TRUE,
                XcmIncomingTransfer(bn, message_origin,
                    convert_account_id_to_ah_address(issue_event.who),
                    metadata.val.asset_name,
                    to_decimal_f64(issue_event.amount, metadata.val.decimals),
                    transfer_type), 1)

\* A bug to tell from received_dot: DOT is always taken for a reserve transfer.
received_dot_always_reserve(bn, message_origin, minted_event) ==
    Payload(TRUE,
        XcmIncomingTransfer(bn, message_origin,
            convert_account_id_to_ah_address(minted_event.who),
            <<"DOT">>,
            to_decimal_f64(minted_event.amount, DOT_DECIMALS),
            "Reserve"), 0)

\* incoming_parser.rs:136-149, the two Balances.Minted arms
received_dot(bn, message_origin, minted_event) ==
    Payload(TRUE,
        XcmIncomingTransfer(bn, message_origin,
            convert_account_id_to_ah_address(minted_event.who),
            <<"DOT">>,
            to_decimal_f64(minted_event.amount, DOT_DECIMALS),
            IF message_origin = Parent THEN "Teleport" ELSE "Reserve"), 0)

IsSomeSome(o) == IsSome(o) /\ IsSome(Unwrap(o))

IsSomeNone(o) == IsSome(o) /\ ~IsSome(Unwrap(o))

\* A bug to tell from match_arm: the origin is not looked at for a Minted event.
match_arm_any_origin(message_origin, minted, issued, foreign) ==
    CASE IsSomeSome(minted) /\ IsSomeNone(issued) /\ IsSomeNone(foreign) -> "dot"
      [] message_origin[1] = "Sibling" /\ IsSomeNone(minted) /\ IsSomeSome(issued)
             /\ IsSomeNone(foreign) -> "local"
      [] message_origin[1] = "Sibling" /\ IsSomeNone(minted) /\ IsSomeNone(issued)
             /\ IsSomeSome(foreign) -> "foreign"
      [] OTHER -> "none"

\* incoming_parser.rs:137, :144, :150, :162, :189: the patterns of the match on
\* (origin, Minted?, Assets.Issued?, ForeignAssets.Issued?)
match_arm(message_origin, minted, issued, foreign) ==
    CASE message_origin = Parent /\ IsSomeSome(minted) /\ IsSomeNone(issued)
             /\ IsSomeNone(foreign) -> "dot"
      [] message_origin[1] = "Sibling" /\ IsSomeSome(minted) /\ IsSomeNone(issued)
             /\ IsSomeNone(foreign) -> "dot"
      [] message_origin[1] = "Sibling" /\ IsSomeNone(minted) /\ IsSomeSome(issued)
             /\ IsSomeNone(foreign) -> "local"
      [] message_origin[1] = "Sibling" /\ IsSomeNone(minted) /\ IsSomeNone(issued)
             /\ IsSomeSome(foreign) -> "foreign"
      [] OTHER -> "none"

\* incoming_parser.rs:99-200.  last is None or Some(the issuance event).
generate_xcm_received_payload(fetch, bn, last, processed_message_event) ==
    LET decoded == as_event(processed_message_event, "MessageQueue", "Processed")
    IN IF ~(decoded.ok /\ IsSome(decoded.val))
       THEN Payload(FALSE, "GeneratePayloadFailed", 0)
       ELSE IF ~Unwrap(decoded.val).success
       THEN Payload(FALSE, "UnsuccessfulXcmMessage", 0)
       ELSE
       LET message_origin == Unwrap(decoded.val).origin
           minted == IF IsSome(last)
                     THEN Some(ok_flatten(as_event(Unwrap(last), "Balances", "Minted")))
                     ELSE None
           issued == IF IsSome(last)
                     THEN Some(ok_flatten(as_event(Unwrap(last), "Assets", "Issued")))
                     ELSE None
           foreign == IF IsSome(last)
                      THEN Some(ok_flatten(as_event(Unwrap(last), "ForeignAssets", "Issued")))
                      ELSE None
           arm == match_arm(message_origin, minted, issued, foreign)
       IN CASE arm = "dot" ->
                 received_dot(bn, message_origin, Unwrap(Unwrap(minted)))
            [] arm = "local" ->
                 received_local_asset(fetch, bn, message_origin, Unwrap(Unwrap(issued)))
            [] arm = "foreign" ->
                 received_foreign_asset(fetch, bn, message_origin, Unwrap(Unwrap(foreign)))
            [] OTHER -> Payload(FALSE, "GeneratePayloadFailed", 0)

\* A bug to tell from EventArm: the phase of the event is not looked at.
EventArm_any_phase(event) ==
    IF ~event.ok THEN "skip"
    ELSE IF event.pallet \in {"Assets", "ForeignAssets"} /\ event.variant = "Issued"
    THEN "issuance"
    ELSE IF event.pallet = "Balances" /\ event.variant = "Minted" THEN "issuance"
    ELSE IF event.pallet = "MessageQueue" /\ event.variant = "Processed" THEN "processed"
    ELSE "skip"

\* A bug to tell from EventArm: an event no arm matches is stored as the
\* pending issuance.
EventArm_unmatched_stored(event) ==
    IF ~event.ok THEN "skip"
    ELSE IF event.phase = "Finalization" /\ event.pallet = "MessageQueue"
            /\ event.variant = "Processed" THEN "processed"
    ELSE "issuance"

\* incoming_parser.rs:70-91: the arm of the match an item of the iterator takes.
EventArm(event) ==
    IF ~event.ok THEN "skip"
    ELSE IF event.phase = "Finalization" /\ event.pallet \in {"Assets", "ForeignAssets"}
            /\ event.variant = "Issued" THEN "issuance"
    ELSE IF event.phase = "Finalization" /\ event.pallet = "Balances"
            /\ event.variant = "Minted" THEN "issuance"
    ELSE IF event.phase = "Finalization" /\ event.pallet = "MessageQueue"
            /\ event.variant = "Processed" THEN "processed"
    ELSE "skip"

\* A bug to tell from store_issuance: a pending issuance is not overwritten.
store_issuance_keeps_first(last, idx) == IF IsSome(last) THEN last ELSE Some(idx)

\* incoming_parser.rs:74 and :77: last_issuance_event = Some(event)
store_issuance(last, idx) == Some(idx)

\* A bug to tell from take: the pending issuance is read and left in place.
take_leaves(last) == [taken |-> last, left |-> last]

\* incoming_parser.rs:83: last_issuance_event.take(), the value taken and the value left
take(last) == [taken |-> last, left |-> None]

\* What last_issuance_event refers to: the event itself.
EventOf(last) == IF IsSome(last) THEN Some(events[Unwrap(last)]) ELSE None

\* incoming_parser.rs:59-66: the block and its events are fetched, either may fail
IncomingFetchBlock ==
    /\ pc = "in_start"
    /\ \E fetched \in BOOLEAN :
           pc' = IF fetched THEN "in_scan" ELSE "in_failed"
    /\ UNCHANGED <<block_number, events, extrinsics, i, last_issuance_event,
                   in_output, in_log, j, out_output, out_log, all_output,
                   fn_input, fn_result, returned, tasks, stream, output_file,
                   file, stdout>>

\* A bug to tell from on_payload: an Err ends the scan (output.push(...?)).
on_payload_propagates(output, payload) ==
    [output |-> IF payload.ok THEN Append(output, payload.val) ELSE output,
     pc |-> IF payload.ok THEN "in_scan" ELSE "in_failed"]

\* A bug to tell from on_payload: the record is put in front of the others.
on_payload_in_front(output, payload) ==
    [output |-> IF payload.ok THEN <<payload.val>> \o output ELSE output,
     pc |-> "in_scan"]

\* incoming_parser.rs:80-89: if let Ok(payload) = ... { output.push(payload) }.
\* An Err is dropped and the loop goes on.
on_payload(output, payload) ==
    [output |-> IF payload.ok THEN Append(output, payload.val) ELSE output,
     pc |-> "in_scan"]

\* The history entry of one iteration: the arm taken, the pending issuance
\* before and after, the issuance handed to generate_xcm_received_payload (0:
\* none), the outcome of the storage fetch it made ("none": no fetch) and the
\* number of records pushed.
LogEntry(arm, before, after, issuance, fetch, emitted) ==
    [arm |-> arm, before |-> before, after |-> after, issuance |-> issuance,
     fetch |-> fetch, emitted |-> emitted]

\* incoming_parser.rs:68-94: one iteration of the loop over the events
IncomingScanEvent ==
    /\ pc = "in_scan"
    /\ i <= Len(events)
    /\ LET event == events[i]
           arm == EventArm(event)
       IN CASE arm = "issuance" ->
                 /\ last_issuance_event' = store_issuance(last_issuance_event, i)
                 /\ in_log' = Append(in_log,
                        LogEntry(arm, last_issuance_event, last_issuance_event', 0, "none", 0))
                 /\ UNCHANGED <<in_output, pc>>
            [] arm = "processed" ->
                 \E fetch \in FetchOutcomes :
                     LET t == take(last_issuance_event)
                         payload == generate_xcm_received_payload(
                                        fetch, block_number, EventOf(t.taken), event)
                         then == on_payload(in_output, payload)
                     IN /\ last_issuance_event' = t.left
                        /\ in_output' = then.output
                        /\ pc' = then.pc
                        /\ in_log' = Append(in_log,
                               LogEntry(arm, last_issuance_event, t.left,
                                   IF IsSome(t.taken) THEN Unwrap(t.taken) ELSE 0,
                                   IF payload.fetches = 0 THEN "none" ELSE fetch,
                                   Len(then.output) - Len(in_output)))
            [] OTHER ->
                 /\ in_log' = Append(in_log,
                        LogEntry(arm, last_issuance_event, last_issuance_event, 0, "none", 0))
                 /\ UNCHANGED <<last_issuance_event, in_output, pc>>
    /\ i' = i + 1
    /\ UNCHANGED <<block_number, events, extrinsics, j, out_output, out_log, all_output,
                   fn_input, fn_result, returned, tasks, stream, output_file,
                   file, stdout>>

\* incoming_parser.rs:96: Ok(output)
IncomingReturn ==
    /\ pc = "in_scan"
    /\ i > Len(events)
    /\ pc' = "in_done"
    /\ UNCHANGED <<block_number, events, extrinsics, i, last_issuance_event,
                   in_output, in_log, j, out_output, out_log, all_output,
                   fn_input, fn_result, returned, tasks, stream, output_file,
                   file, stdout>>

\* A call of get_incoming_xcm_transfers_at_block_hash on any block of at most
\* MaxEvents events.
InitIncoming ==
    /\ block_number \in BlockNumbers
    /\ events \in SeqsUpTo(EventSet, MaxEvents)
    /\ extrinsics = <<>>
    /\ pc = "in_start"
    /\ i = 1
    /\ last_issuance_event = None
    /\ in_output = <<>>
    /\ in_log = <<>>
    /\ j = 1
    /\ out_output = <<>>
    /\ out_log = <<>>
    /\ all_output = <<>>
    /\ fn_input = <<>>
    /\ fn_result = <<>>
    /\ stdout = <<>>
    /\ file = <<>>
    /\ output_file = FALSE
    /\ stream = <<>>
    /\ tasks = <<>>
    /\ returned = <<>>

NextIncoming == IncomingFetchBlock \/ IncomingScanEvent \/ IncomingReturn

SpecIncoming == InitIncoming /\ [][NextIncoming]_vars

\* The events of the blocks that hold several pairs are at most
\* MaxPairedEvents, which leaves room for two issuances with their Processed
\* events.
MaxPairedEvents == 4

\* The events of the blocks that hold several pairs: two issuances, and
\* Processed events of two origins that report success and one that does not.
PairsEventSet ==
    { Minted("Finalization", TRUE, "acc_X", 12),
      AssetsIssued("Finalization", 1984, "acc_Y", 15),
      Processed("Finalization", TRUE, Parent, TRUE),
      Processed("Finalization", TRUE, Sibling(2004), TRUE),
      Processed("Finalization", TRUE, Parent, FALSE) }

\* A call of get_incoming_xcm_transfers_at_block_hash on any block of at most
\* MaxPairedEvents of these events.
InitPairs ==
    /\ block_number \in BlockNumbers
    /\ events \in SeqsUpTo(PairsEventSet, MaxPairedEvents)
    /\ extrinsics = <<>>
    /\ pc = "in_start"
    /\ i = 1
    /\ last_issuance_event = None
    /\ in_output = <<>>
    /\ in_log = <<>>
    /\ j = 1
    /\ out_output = <<>>
    /\ out_log = <<>>
    /\ all_output = <<>>
    /\ fn_input = <<>>
    /\ fn_result = <<>>
    /\ stdout = <<>>
    /\ file = <<>>
    /\ output_file = FALSE
    /\ stream = <<>>
    /\ tasks = <<>>
    /\ returned = <<>>

SpecPairs == InitPairs /\ [][NextIncoming]_vars

----------------------------------------------------------------------------
(* Properties of the incoming scan.  The vocabulary below is that of the   *)
(* statements: it reads the block, not the scan's own variables.           *)

\* The events scanned so far.
Scanned == 1..Len(in_log)

FinalizationEvent(p) == events[p].ok /\ events[p].phase = "Finalization"

EventKind(p) == <<events[p].pallet, events[p].variant>>

IssuanceClass(p) ==
    /\ FinalizationEvent(p)
    /\ EventKind(p) \in {<<"Balances", "Minted">>, <<"Assets", "Issued">>,
                         <<"ForeignAssets", "Issued">>}

ProcessedEvent(p) ==
    FinalizationEvent(p) /\ EventKind(p) = <<"MessageQueue", "Processed">>

SetMax(S) == CHOOSE x \in S : \A y \in S : y <= x

\* The issuance pending when event p is reached: the last issuance-class event
\* before p with no Processed event after it (0: none).
PendingBefore(p) ==
    LET candidates == {k \in 1..(p - 1) :
                          /\ IssuanceClass(k)
                          /\ \A m \in (k + 1)..(p - 1) : ~ProcessedEvent(m)}
    IN IF candidates = {} THEN 0 ELSE SetMax(candidates)

\* A Processed event that decodes and reports success.
SuccessfulProcessed(p) ==
    ProcessedEvent(p) /\ events[p].decodes /\ events[p].success

\* The (origin, pending issuance) pairs of the table.
SupportedPair(p) ==
    LET k == PendingBefore(p)
    IN /\ k # 0
       /\ events[k].decodes
       /\ \/ events[p].origin = Parent /\ EventKind(k) = <<"Balances", "Minted">>
          \/ events[p].origin[1] = "Sibling"

\* The record pushed for event p, when one was.
Count(n, P(_)) == Cardinality({q \in 1..n : P(q)})

EmittedAt(q) == in_log[q].emitted > 0

RecordOf(p) == in_output[Count(p, EmittedAt)]

\* A location is concrete for sibling P: parents = 1, first junction Parachain(P).
ConcreteFor(loc, P) ==
    loc.parents = 1 /\ Len(loc.interior) >= 1 /\ loc.interior[1] = <<"Parachain", P>>

\* The transfer type the table gives the pair of event p.
TableTransferType(p) ==
    LET k == PendingBefore(p)
        origin == events[p].origin
    IN CASE EventKind(k) = <<"Balances", "Minted">> ->
              IF origin = Parent THEN "Teleport" ELSE "Reserve"
         [] EventKind(k) = <<"Assets", "Issued">> -> "Reserve"
         [] EventKind(k) = <<"ForeignAssets", "Issued">> ->
              IF ConcreteFor(events[k].loc, origin[2]) THEN "Teleport" ELSE "Reserve"

\* The record of event p is the one the table gives.
TableRecord(p) ==
    LET k == PendingBefore(p)
        r == RecordOf(p)
    IN /\ in_log[p].emitted = 1
       /\ r.transfer_type = TableTransferType(p)
       /\ r.origin_chain = events[p].origin
       /\ r.receiver = <<"ss58", 0, events[k].who>>
       /\ EventKind(k) = <<"Balances", "Minted">> => r.asset = <<"DOT">>

UnsupportedPair(p) ==
    LET k == PendingBefore(p)
    IN \/ k = 0
       \/ events[p].origin = Here
       \/ /\ events[p].origin = Parent
          /\ EventKind(k) \in {<<"Assets", "Issued">>, <<"ForeignAssets", "Issued">>}

\* The scan did not fail at an event, and if it ended it went through every event.
ScanWentOn ==
    /\ pc \in {"in_scan", "in_done"}
    /\ pc = "in_scan" => i = Len(in_log) + 1
    /\ pc = "in_done" => Len(in_log) = Len(events)

\* C2: a successful Processed event whose pair is not in the table yields no
\* record, the scan returns no error and every later event is scanned.
C2_UnsupportedPairDropped ==
    \A p \in Scanned :
        SuccessfulProcessed(p) /\ UnsupportedPair(p) =>
            in_log[p].emitted = 0 /\ ScanWentOn

\* C2 witness: a scan that ended after an unsupported pair (Parent with a pending
\* Assets.Issued or ForeignAssets.Issued) and stored the issuance that followed.
C2_Witness ==
    /\ pc = "in_done"
    /\ \E p \in Scanned :
           /\ SuccessfulProcessed(p) /\ UnsupportedPair(p) /\ PendingBefore(p) # 0
           /\ events[p].origin = Parent
           /\ p < Len(events)
           /\ in_log[p + 1].after = Some(p + 1)

\* C3: the record of a Processed event is built from the last issuance-class
\* event before it; an issuance overwritten by a later one contributes nothing.
C3_LastIssuanceWins ==
    \A p \in Scanned :
        in_log[p].emitted > 0 =>
            LET k == PendingBefore(p)
            IN /\ k # 0
               /\ in_log[p].issuance = k
               /\ RecordOf(p).receiver = <<"ss58", 0, events[k].who>>
               /\ RecordOf(p).amount.value = events[k].amount

\* C3 witness: two different issuance events, then a Processed event with a record.
C3_Witness ==
    \E p \in Scanned :
        /\ in_log[p].emitted = 1
        /\ p = 3
        /\ IssuanceClass(1) /\ IssuanceClass(2)
        /\ events[1].who # events[2].who

\* C4: once a Processed event is handled the pending issuance is None, whatever
\* the outcome, so no issuance is handed to two Processed events.
C4_ProcessedClearsPending ==
    /\ \A p \in Scanned : ProcessedEvent(p) => in_log[p].after = None
    /\ \A p \in Scanned, q \in Scanned :
           p # q /\ in_log[p].issuance # 0 => in_log[q].issuance # in_log[p].issuance

\* C4 witness: an issuance, a Processed event that failed on it (unsuccessful
\* message), then a second successful Processed event, which finds nothing.
C4_Witness ==
    \E p \in Scanned, q \in Scanned :
        /\ q = p + 1
        /\ ProcessedEvent(p) /\ in_log[p].issuance # 0 /\ in_log[p].emitted = 0
        /\ SuccessfulProcessed(q) /\ events[q].origin = Parent
        /\ in_log[q].issuance = 0 /\ in_log[q].emitted = 0

\* C5: a Processed event whose success flag is false yields no record, the
\* scan returns no error and goes on.
C5_UnsuccessfulMessageDropped ==
    \A p \in Scanned :
        ProcessedEvent(p) /\ events[p].decodes /\ ~events[p].success =>
            in_log[p].emitted = 0 /\ ScanWentOn

\* C5 witness: an unsuccessful message that had a supported pair pending, in a
\* scan that ended.
C5_Witness ==
    /\ pc = "in_done"
    /\ \E p \in Scanned :
           /\ ProcessedEvent(p) /\ events[p].decodes /\ ~events[p].success
           /\ PendingBefore(p) # 0
           /\ p < Len(events)

\* C6 (as stated): a record is pushed for a Processed event only if its issuance
\* is the event right before it.
C6_IssuanceImmediatelyPrecedes ==
    \A p \in Scanned :
        in_log[p].emitted > 0 => in_log[p].issuance = p - 1

\* C6 (amended): a record is pushed for a Processed event only if its issuance is
\* the last issuance-class event before it and no finalization-phase issuance or
\* Processed event lies between the two; any other event may.
C6_NoIssuanceOrProcessedBetween ==
    \A p \in Scanned :
        in_log[p].emitted > 0 =>
            /\ in_log[p].issuance \in 1..(p - 1)
            /\ IssuanceClass(in_log[p].issuance)
            /\ \A m \in (in_log[p].issuance + 1)..(p - 1) :
                   ~IssuanceClass(m) /\ ~ProcessedEvent(m)

\* C6 witness: a record whose issuance is not the event right before.
C6_Witness ==
    \E p \in Scanned :
        in_log[p].emitted = 1 /\ in_log[p].issuance < p - 1

\* C7: an event of another phase never sets or clears the pending issuance and
\* never produces a record.
C7_OnlyFinalizationEvents ==
    \A p \in Scanned :
        events[p].ok /\ events[p].phase # "Finalization" =>
            /\ in_log[p].after = in_log[p].before
            /\ in_log[p].emitted = 0

\* C7 witness: a Minted and a Processed event of other phases were scanned, the
\* first with nothing pending, the second with an issuance pending.
C7_Witness ==
    \E p \in Scanned, q \in Scanned :
        /\ events[p].ok /\ events[p].phase # "Finalization"
        /\ EventKind(p) = <<"Balances", "Minted">> /\ in_log[p].before = None
        /\ events[q].ok /\ events[q].phase # "Finalization"
        /\ EventKind(q) = <<"MessageQueue", "Processed">> /\ in_log[q].before # None

----------------------------------------------------------------------------
(* The extrinsics of a block.  An extrinsic is a call (as_extrinsic may    *)
(* fail to decode its arguments) with a destination, a beneficiary and an  *)
(* asset list, each in a version of the XCM types, and the address bytes   *)
(* of its signer when it is signed.                                        *)

Versioned(version, value) == [version |-> version, value |-> value]

\* xcm::v3::multiasset::MultiAsset { id, fun }
Asset(id, loc, fun, amount) == [id |-> id, loc |-> loc, fun |-> fun, amount |-> amount]

\* A u128 as its two halves: value = hi * 2^32 + lo, with lo < 2^32.
U128(hi, lo) == [hi |-> hi, lo |-> lo]

\* outgoing_parser.rs:270 and :369: `asset_id as u32`, the low 32 bits.
cast_u32(v) == v.lo

Extrinsic(call, decodes, dest, beneficiary, assets, signer) ==
    [call |-> call, decodes |-> decodes, dest |-> dest, beneficiary |-> beneficiary,
     assets |-> assets, signer |-> signer]

CallShapes == <<"LimitedTeleportAssets", "LimitedReserveTransferAssets", "TransferAssets">>

Calls == {CallShapes[k] : k \in 1..3}

\* The assets of the inputs: DOT, Tether (asset 1984 of pallet 50), the native
\* token of sibling 2004, an asset of sibling 2004's pallet 50, and a
\* non-fungible instance of DOT.
AssetDot == Asset("Concrete", Location(1, <<>>), "Fungible", 21)

AssetLocal ==
    Asset("Concrete",
          Location(0, <<PalletInstance(AssetsPalletInstance), GeneralIndex(U128(0, 1984))>>),
          "Fungible", 22)

AssetForeign == Asset("Concrete", Location(1, <<Parachain(2004)>>), "Fungible", 23)

AssetOther ==
    Asset("Concrete",
          Location(1, <<Parachain(2004), PalletInstance(AssetsPalletInstance),
                        GeneralIndex(U128(0, 3014))>>),
          "Fungible", 24)

AssetNonFungible == Asset("Concrete", Location(1, <<>>), "NonFungible", 25)

AssetSet == {AssetDot, AssetLocal, AssetForeign, AssetOther, AssetNonFungible}

AssetLists ==
    {Versioned("V3", l) : l \in SeqsUpTo(AssetSet, MaxAssets)}
        \cup {Versioned("V4", <<AssetDot>>)}

\* The destinations of the inputs: the five recognised shapes and three others.
DestPara2004 == Versioned("V3", Location(1, <<Parachain(2004)>>))

DestPolkadot == Versioned("V3", Location(1, <<>>))

Dests ==
    { DestPolkadot,
      DestPara2004,
      Versioned("V3", Location(1, <<Parachain(3370)>>)),
      Versioned("V3", Location(2, <<GlobalConsensus(Ethereum(1))>>)),
      Versioned("V3", Location(2, <<GlobalConsensus(Kusama)>>)),
      Versioned("V3", Location(2, <<GlobalConsensus(Kusama), Parachain(1000)>>)),
      Versioned("V3", Location(2, <<GlobalConsensus(Kusama), Parachain(2004)>>)),
      Versioned("V3", Location(0, <<Parachain(2004)>>)),
      Versioned("V3", Location(1, <<Parachain(2004), PalletInstance(AssetsPalletInstance)>>)),
      Versioned("V3", Location(2, <<Parachain(2004)>>)),
      Versioned("V4", Location(1, <<>>)) }

BeneficiaryY == Versioned("V3", Location(0, <<AccountId32("acc_Y")>>))

Beneficiaries ==
    { BeneficiaryY,
      Versioned("V3", Location(0, <<AccountKey20("key_Z")>>)),
      Versioned("V3", Location(0, <<Parachain(2004)>>)),
      Versioned("V3", Location(1, <<Parachain(2004), AccountId32("acc_Y")>>)),
      Versioned("V3", Location(0, <<>>)),
      Versioned("V4", Location(0, <<AccountId32("acc_Y")>>)) }

\* address_bytes() of a signed extrinsic: the MultiAddress discriminant, then
\* the 32 bytes of the account.
SignedBy(account) == Some(<<0, account, 32>>)

\* address_bytes() of an extrinsic signed with another MultiAddress variant:
\* the discriminant, then a payload of len bytes (Address20: 4, then 20 bytes).
SignedByOther(discriminant, payload, len) == Some(<<discriminant, payload, len>>)

\* The extrinsics a block is built from: every call with every asset list, with
\* every destination and single asset, with every beneficiary, unsigned,
\* undecodable, and a call of another pallet.
ExtrinsicSet ==
    {Extrinsic(c, TRUE, DestPara2004, BeneficiaryY, a, SignedBy("acc_X")) :
        c \in Calls, a \in AssetLists}
    \cup {Extrinsic(c, TRUE, d, BeneficiaryY, Versioned("V3", <<a>>), SignedBy("acc_X")) :
        c \in Calls, d \in Dests, a \in AssetSet}
    \cup {Extrinsic(c, TRUE, DestPolkadot, b, Versioned("V3", <<AssetDot>>), SignedBy("acc_X")) :
        c \in Calls, b \in Beneficiaries}
    \cup {Extrinsic(c, d, DestPolkadot, BeneficiaryY, Versioned("V3", <<AssetDot>>), None) :
        c \in Calls \cup {"Other"}, d \in BOOLEAN}

\* The extrinsics that fill the rest of a block: a teleport of DOT to the relay
\* chain, a call of another pallet, a transfer that does not decode.
FillerSet ==
    {Extrinsic("LimitedTeleportAssets", d, DestPolkadot, BeneficiaryY,
               Versioned("V3", <<AssetDot>>), None) : d \in BOOLEAN}
    \cup {Extrinsic("Other", TRUE, DestPolkadot, BeneficiaryY,
                    Versioned("V3", <<AssetDot>>), None)}

\* A block of n extrinsics: any extrinsic of ExtrinsicSet at position p and the
\* fillers f at the others (the scan of one extrinsic reads nothing of the
\* others).
OutgoingBlock(n, p, x, f) == [k \in 1..n |-> IF k = p THEN x ELSE f[k]]

----------------------------------------------------------------------------
(* outgoing_parser.rs                                                      *)

Unsupported == <<"Unsupported">>

\* A bug to tell from DestinationChainFrom: parents is not looked at.
DestinationChainFrom_any_parents(location) ==
    LET interior == location.interior
    IN IF interior = <<>> THEN <<"Polkadot">>
       ELSE IF Len(interior) = 1 /\ interior[1][1] = "Parachain"
       THEN <<"PolkadotParachain", interior[1][2]>>
       ELSE Unsupported

\* outgoing_parser.rs:56-82: impl From<&MultiLocation> for DestinationChain
DestinationChainFrom(location) ==
    LET interior == location.interior
    IN IF location.parents = 1
       THEN IF interior = <<>> THEN <<"Polkadot">>
            ELSE IF Len(interior) = 1 /\ interior[1][1] = "Parachain"
            THEN <<"PolkadotParachain", interior[1][2]>>
            ELSE Unsupported
       ELSE IF location.parents = 2
       THEN IF Len(interior) = 1
            THEN IF interior[1][1] = "GlobalConsensus" /\ interior[1][2][1] = "Ethereum"
                 THEN <<"Ethereum", interior[1][2][2]>>
                 ELSE IF interior[1] = GlobalConsensus(Kusama) THEN <<"Kusama">>
                 ELSE Unsupported
            ELSE IF Len(interior) = 2 /\ interior[1] = GlobalConsensus(Kusama)
                    /\ interior[2][1] = "Parachain"
            THEN <<"KusamaParachain", interior[2][2]>>
            ELSE Unsupported
       ELSE Unsupported

\* ExtrinsicDetails::as_extrinsic::<T>(): Ok(None) when the call is not a T, an
\* error when its arguments do not decode, Ok(Some(call)) otherwise.
as_extrinsic(raw_extrinsic, type_to_decode) ==
    IF raw_extrinsic.call # type_to_decode THEN Ok(None)
    ELSE IF ~raw_extrinsic.decodes THEN Err("Decode")
    ELSE Ok(Some(raw_extrinsic))

\* A bug to tell from beneficiary_text: the account is rendered in the
\* own-chain encoding.
beneficiary_text_ah_address(beneficiary) ==
    IF beneficiary.version # "V3" THEN None
    ELSE LET interior == beneficiary.value.interior
         IN IF Len(interior) = 1 /\ interior[1][1] = "AccountId32"
            THEN Some(convert_account_id_to_ah_address(interior[1][2]))
            ELSE IF Len(interior) = 1 /\ interior[1][1] = "AccountKey20"
            THEN Some(<<"0x", "hex", interior[1][2]>>)
            ELSE None

\* outgoing_parser.rs:133-146: the beneficiary as text, or no text
beneficiary_text(beneficiary) ==
    IF beneficiary.version # "V3" THEN None
    ELSE LET interior == beneficiary.value.interior
         IN IF Len(interior) = 1 /\ interior[1][1] = "AccountId32"
            THEN Some(convert_account_id_to_general_substrate_address(interior[1][2]))
            ELSE IF Len(interior) = 1 /\ interior[1][1] = "AccountKey20"
            THEN Some(<<"0x", "hex", interior[1][2]>>)
            ELSE None

\* outgoing_parser.rs:148-158: the sender as text.  bytes[1..].try_into() gives
\* an AccountId32 only from 32 bytes: expect panics on any other length, which
\* is no Err of the function but the end of the thread ("Panic" here).
sender_text(address_bytes) ==
    IF IsSome(address_bytes)
    THEN IF Unwrap(address_bytes)[3] = 32
         THEN Ok(convert_account_id_to_ah_address(Unwrap(address_bytes)[2]))
         ELSE Err("Panic")
    ELSE Ok(<<"Unsigned message">>)

\* outgoing_parser.rs:118-162: the macro decode_extrinsic_and_get_info
decode_extrinsic_and_get_info(raw_extrinsic, type_to_decode) ==
    LET decoded == as_extrinsic(raw_extrinsic, type_to_decode)
    IN IF ~(decoded.ok /\ IsSome(decoded.val)) THEN Err("GeneratePayloadFailed")
       ELSE LET decoded_extrinsic == Unwrap(decoded.val)
            IN IF decoded_extrinsic.dest.version # "V3" THEN Err("GeneratePayloadFailed")
               ELSE LET beneficiary == beneficiary_text(decoded_extrinsic.beneficiary)
                    IN IF ~IsSome(beneficiary) THEN Err("GeneratePayloadFailed")
                       ELSE IF ~sender_text(raw_extrinsic.signer).ok THEN Err("Panic")
                       ELSE Ok([decoded_extrinsic |-> decoded_extrinsic,
                                destination_chain |->
                                    DestinationChainFrom(decoded_extrinsic.dest.value),
                                sender |-> sender_text(raw_extrinsic.signer).val,
                                beneficiary |-> Unwrap(beneficiary)])

XcmOutgoingTransfer(bn, destination_chain, sender, beneficiary, asset, amount, transfer_type) ==
    [block_number |-> bn, destination_chain |-> destination_chain, sender |-> sender,
     beneficiary |-> beneficiary, asset |-> asset, amount |-> amount,
     transfer_type |-> transfer_type]

\* The asset_details of one asset: the result of the fetch made for it (if any)
\* and Some((asset_name, decimals, amount, is_teleportable)) or None.
Details(ok, val, fetches) == [ok |-> ok, val |-> val, fetches |-> fetches]

AssetDetails(asset_name, decimals, amount, is_teleportable) ==
    [asset_name |-> asset_name, decimals |-> decimals, amount |-> amount,
     is_teleportable |-> is_teleportable]

IsDotAsset(asset) ==
    asset.id = "Concrete" /\ asset.fun = "Fungible" /\ asset.loc = Location(1, <<>>)

IsLocalAsset(asset) ==
    /\ asset.id = "Concrete" /\ asset.fun = "Fungible"
    /\ asset.loc.parents = 0
    /\ Len(asset.loc.interior) = 2
    /\ asset.loc.interior[1] = PalletInstance(AssetsPalletInstance)
    /\ asset.loc.interior[2][1] = "GeneralIndex"

IsSiblingAsset(asset) ==
    /\ asset.id = "Concrete" /\ asset.fun = "Fungible"
    /\ asset.loc.parents = 1
    /\ Len(asset.loc.interior) = 1
    /\ asset.loc.interior[1][1] = "Parachain"

\* The lookup of a local asset's metadata, common to :264-274 and :363-374
local_asset_details(fetch, asset, is_teleportable) ==
    LET metadata == extract_asset_metadata_values(fetch, cast_u32(asset.loc.interior[2][2]))
    IN IF ~metadata.ok THEN Details(FALSE, metadata.val, 1)
       ELSE Details(TRUE, Some(AssetDetails(metadata.val.asset_name, metadata.val.decimals,
                                            asset.amount, is_teleportable)), 1)

\* The lookup of a sibling's native token, common to :197-206, :288-297, :388-410
foreign_asset_details(fetch, asset_location_in_v4, amount, is_teleportable) ==
    LET metadata == extract_foreign_asset_metadata_values(fetch, asset_location_in_v4)
    IN IF ~metadata.ok THEN Details(FALSE, metadata.val, 1)
       ELSE Details(TRUE, Some(AssetDetails(metadata.val.asset_name, metadata.val.decimals,
                                            amount, is_teleportable)), 1)

\* A bug to tell from teleport_asset_details: the pallet assets arm is there too.
teleport_asset_details_with_local(fetch, asset, destination_chain) ==
    IF IsDotAsset(asset)
    THEN Details(TRUE, Some(AssetDetails(<<"DOT">>, DOT_DECIMALS, asset.amount, TRUE)), 0)
    ELSE IF IsLocalAsset(asset)
    THEN local_asset_details(fetch, asset, TRUE)
    ELSE IF IsSiblingAsset(asset)
    THEN foreign_asset_details(fetch, Location(1, <<Parachain(asset.loc.interior[1][2])>>),
                               asset.amount, TRUE)
    ELSE Details(TRUE, None, 0)

\* outgoing_parser.rs:180-210: asset_details in generate_xcm_sent_teleport_payload
teleport_asset_details(fetch, asset, destination_chain) ==
    IF IsDotAsset(asset)
    THEN Details(TRUE, Some(AssetDetails(<<"DOT">>, DOT_DECIMALS, asset.amount, TRUE)), 0)
    ELSE IF IsSiblingAsset(asset)
    THEN foreign_asset_details(fetch, Location(1, <<Parachain(asset.loc.interior[1][2])>>),
                               asset.amount, TRUE)
    ELSE Details(TRUE, None, 0)

\* A bug to tell from reserve_asset_details: DOT sent to the relay chain is a teleport.
reserve_asset_details_dot_teleports(fetch, asset, destination_chain) ==
    IF IsDotAsset(asset)
    THEN Details(TRUE, Some(AssetDetails(<<"DOT">>, DOT_DECIMALS, asset.amount,
                                         destination_chain = <<"Polkadot">>)), 0)
    ELSE IF IsLocalAsset(asset)
    THEN local_asset_details(fetch, asset, FALSE)
    ELSE IF IsSiblingAsset(asset)
    THEN foreign_asset_details(fetch, Location(1, <<Parachain(asset.loc.interior[1][2])>>),
                               asset.amount, FALSE)
    ELSE Details(TRUE, None, 0)

\* outgoing_parser.rs:245-301: asset_details in generate_xcm_sent_reserve_transfer_payload
reserve_asset_details(fetch, asset, destination_chain) ==
    IF IsDotAsset(asset)
    THEN Details(TRUE, Some(AssetDetails(<<"DOT">>, DOT_DECIMALS, asset.amount, FALSE)), 0)
    ELSE IF IsLocalAsset(asset)
    THEN local_asset_details(fetch, asset, FALSE)
    ELSE IF IsSiblingAsset(asset)
    THEN foreign_asset_details(fetch, Location(1, <<Parachain(asset.loc.interior[1][2])>>),
                               asset.amount, FALSE)
    ELSE Details(TRUE, None, 0)

\* A bug to tell from transfer_assets_asset_details: a sibling's token is
\* teleportable to any sibling.
transfer_assets_asset_details_any_sibling(fetch, asset, destination_chain) ==
    IF IsDotAsset(asset)
    THEN Details(TRUE, Some(AssetDetails(<<"DOT">>, DOT_DECIMALS, asset.amount,
                                         destination_chain = <<"Polkadot">>)), 0)
    ELSE IF IsLocalAsset(asset)
    THEN local_asset_details(fetch, asset, FALSE)
    ELSE IF IsSiblingAsset(asset)
    THEN foreign_asset_details(fetch, Location(1, <<Parachain(asset.loc.interior[1][2])>>),
                               asset.amount, destination_chain[1] = "PolkadotParachain")
    ELSE Details(TRUE, None, 0)

\* outgoing_parser.rs:335-414: asset_details in generate_xcm_sent_transfer_assets_payload
transfer_assets_asset_details(fetch, asset, destination_chain) ==
    IF IsDotAsset(asset)
    THEN Details(TRUE, Some(AssetDetails(<<"DOT">>, DOT_DECIMALS, asset.amount,
                                         destination_chain = <<"Polkadot">>)), 0)
    ELSE IF IsLocalAsset(asset)
    THEN local_asset_details(fetch, asset, FALSE)
    ELSE IF IsSiblingAsset(asset)
    THEN LET asset_location_in_v4 == Location(1, <<Parachain(asset.loc.interior[1][2])>>)
             is_teleportable ==
                 IF destination_chain[1] = "PolkadotParachain"
                 THEN is_teleportable_to_sibling(asset_location_in_v4, destination_chain[2])
                 ELSE FALSE
         IN foreign_asset_details(fetch, asset_location_in_v4, asset.amount, is_teleportable)
    ELSE Details(TRUE, None, 0)

\* The asset_details of the function that decodes type_to_decode.
asset_details(type_to_decode, fetch, asset, destination_chain) ==
    IF type_to_decode = "LimitedTeleportAssets"
    THEN teleport_asset_details(fetch, asset, destination_chain)
    ELSE IF type_to_decode = "LimitedReserveTransferAssets"
    THEN reserve_asset_details(fetch, asset, destination_chain)
    ELSE transfer_assets_asset_details(fetch, asset, destination_chain)

\* A bug to tell from asset_aborts: an asset without details fails the extrinsic.
asset_aborts_without_details(details) == ~details.ok \/ ~IsSome(details.val)

\* outgoing_parser.rs:205, :273, :296, :372, :398 (`.await?`) against :209, :300,
\* :413 (`_ => None`): an asset ends the function with an error only when its
\* fetch fails; an asset without details is passed over.
asset_aborts(details) == ~details.ok

\* The result of a generate_xcm_sent_*_payload, with the number of fetches made.
Sent(ok, val, fetches) == [ok |-> ok, val |-> val, fetches |-> fetches]

\* A bug to tell from with_details: the last asset of the list comes first.
with_details_last_first(has_details) ==
    LET indices == [k \in 1..Len(has_details) |-> k]
        kept == SelectSeq(indices, LAMBDA k : has_details[k])
    IN [n \in 1..Len(kept) |-> kept[Len(kept) + 1 - n]]

\* outgoing_parser.rs:178-222, :245-312, :334-429: `for asset in assets.0` with
\* `if let Some(..) = asset_details`: the positions of the assets a record is
\* pushed for, in the order of the pushes.
with_details(has_details) ==
    LET indices == [k \in 1..Len(has_details) |-> k]
    IN SelectSeq(indices, LAMBDA k : has_details[k])

\* outgoing_parser.rs:174-228, :241-318, :331-435: the loop over the assets of a
\* decoded call, common to the three functions.  asset_details is that of the
\* function decoding type_to_decode; fetches[k] is the outcome of the fetch made
\* for asset k, if one is made.
sent_payload(type_to_decode, fetches, bn, info) ==
    LET assets == info.decoded_extrinsic.assets
    IN IF assets.version # "V3" THEN Sent(TRUE, <<>>, 0)
       ELSE
       LET list == assets.value
           det(k) == asset_details(type_to_decode, fetches[k], list[k], info.destination_chain)
           failing == {k \in 1..Len(list) : asset_aborts(det(k))}
           kept == with_details([k \in 1..Len(list) |-> IsSome(det(k).val)])
           record(k) ==
               LET d == Unwrap(det(k).val)
               IN XcmOutgoingTransfer(bn, info.destination_chain, info.sender,
                      info.beneficiary, d.asset_name,
                      to_decimal_f64(d.amount, d.decimals),
                      IF d.is_teleportable THEN "Teleport" ELSE "Reserve")
       IN IF failing # {}
          THEN LET first == CHOOSE k \in failing : \A m \in failing : k <= m
               IN Sent(FALSE, "Subxt",
                       Cardinality({k \in 1..first : det(k).fetches = 1}))
          ELSE Sent(TRUE, [n \in 1..Len(kept) |-> record(kept[n])],
                    Cardinality({k \in 1..Len(list) : det(k).fetches = 1}))

\* outgoing_parser.rs:164-229
generate_xcm_sent_teleport_payload(fetches, bn, raw_extrinsic) ==
    LET info == decode_extrinsic_and_get_info(raw_extrinsic, "LimitedTeleportAssets")
    IN IF ~info.ok THEN Sent(FALSE, info.val, 0)
       ELSE sent_payload("LimitedTeleportAssets", fetches, bn, info.val)

\* outgoing_parser.rs:231-319
generate_xcm_sent_reserve_transfer_payload(fetches, bn, raw_extrinsic) ==
    LET info == decode_extrinsic_and_get_info(raw_extrinsic, "LimitedReserveTransferAssets")
    IN IF ~info.ok THEN Sent(FALSE, info.val, 0)
       ELSE sent_payload("LimitedReserveTransferAssets", fetches, bn, info.val)

\* outgoing_parser.rs:321-436
generate_xcm_sent_transfer_assets_payload(fetches, bn, raw_extrinsic) ==
    LET info == decode_extrinsic_and_get_info(raw_extrinsic, "TransferAssets")
    IN IF ~info.ok THEN Sent(FALSE, info.val, 0)
       ELSE sent_payload("TransferAssets", fetches, bn, info.val)

\* One attempt on an extrinsic: the call shape tried and what came of it.
Attempt(shape, sent) ==
    [shape |-> shape, ok |-> sent.ok, err |-> IF sent.ok THEN "" ELSE sent.val,
     fetches |-> sent.fetches, records |-> IF sent.ok THEN sent.val ELSE <<>>]

\* The call of a generate_xcm_sent_*_payload did not return: it panicked.
panics(sent) == ~sent.ok /\ sent.val = "Panic"

\* A bug to tell from scan_extrinsic: the reserve transfer is tried first.
scan_extrinsic_reserve_first(teleport, reserve, transfer) ==
    IF reserve.ok
    THEN [attempts |-> <<Attempt(CallShapes[2], reserve)>>, extend |-> reserve.val]
    ELSE IF teleport.ok
    THEN [attempts |-> <<Attempt(CallShapes[2], reserve), Attempt(CallShapes[1], teleport)>>,
          extend |-> teleport.val]
    ELSE IF transfer.ok
    THEN [attempts |-> <<Attempt(CallShapes[2], reserve), Attempt(CallShapes[1], teleport),
                         Attempt(CallShapes[3], transfer)>>,
          extend |-> transfer.val]
    ELSE [attempts |-> <<Attempt(CallShapes[2], reserve), Attempt(CallShapes[1], teleport),
                         Attempt(CallShapes[3], transfer)>>,
          extend |-> <<>>]

\* outgoing_parser.rs:97-109: the if let Ok .. else if let Ok .. chain on one
\* extrinsic: the attempts made, in order, and the records output is extended by.
\* teleport, reserve and transfer are what the three functions return on the
\* extrinsic; the chain reads one only if the ones before it failed.
scan_extrinsic(teleport, reserve, transfer) ==
    IF teleport.ok
    THEN [attempts |-> <<Attempt(CallShapes[1], teleport)>>, extend |-> teleport.val]
    ELSE IF panics(teleport)
    THEN [attempts |-> <<Attempt(CallShapes[1], teleport)>>, extend |-> <<>>]
    ELSE IF reserve.ok
    THEN [attempts |-> <<Attempt(CallShapes[1], teleport), Attempt(CallShapes[2], reserve)>>,
          extend |-> reserve.val]
    ELSE IF panics(reserve)
    THEN [attempts |-> <<Attempt(CallShapes[1], teleport), Attempt(CallShapes[2], reserve)>>,
          extend |-> <<>>]
    ELSE IF transfer.ok
    THEN [attempts |-> <<Attempt(CallShapes[1], teleport), Attempt(CallShapes[2], reserve),
                         Attempt(CallShapes[3], transfer)>>,
          extend |-> transfer.val]
    ELSE [attempts |-> <<Attempt(CallShapes[1], teleport), Attempt(CallShapes[2], reserve),
                         Attempt(CallShapes[3], transfer)>>,
          extend |-> <<>>]

\* outgoing_parser.rs:88-94: the block and its extrinsics are fetched, either may fail
OutgoingFetchBlock ==
    /\ pc = "out_start"
    /\ \E fetched \in BOOLEAN :
           pc' = IF fetched THEN "out_scan" ELSE "out_failed"
    /\ UNCHANGED <<block_number, events, extrinsics, i, last_issuance_event,
                   in_output, in_log, j, out_output, out_log, all_output,
                   fn_input, fn_result, returned, tasks, stream, output_file,
                   file, stdout>>

\* outgoing_parser.rs:96-110: one iteration of the loop over the extrinsics; a
\* panic of the sender's expect ends the scan.
OutgoingScanExtrinsic ==
    /\ pc = "out_scan"
    /\ j <= Len(extrinsics)
    /\ \E fetches \in [1..Len(extrinsics[j].assets.value) -> FetchOutcomes] :
         \E teleport \in {generate_xcm_sent_teleport_payload(fetches, block_number, extrinsics[j])},
            reserve \in {generate_xcm_sent_reserve_transfer_payload(fetches, block_number, extrinsics[j])},
            transfer \in {generate_xcm_sent_transfer_assets_payload(fetches, block_number, extrinsics[j])} :
           \E scan \in {scan_extrinsic(teleport, reserve, transfer)} :
              /\ out_output' = out_output \o scan.extend
              /\ out_log' = Append(out_log,
                     [attempts |-> scan.attempts,
                      fetches |-> fetches,
                      emitted |-> Len(scan.extend)])
              /\ pc' = IF scan.attempts[Len(scan.attempts)].err = "Panic"
                       THEN "out_panicked" ELSE pc
    /\ j' = j + 1
    /\ UNCHANGED <<block_number, events, extrinsics, i, last_issuance_event,
                   in_output, in_log, all_output,
                   fn_input, fn_result, returned, tasks, stream, output_file,
                   file, stdout>>

\* outgoing_parser.rs:112: Ok(output)
OutgoingReturn ==
    /\ pc = "out_scan"
    /\ j > Len(extrinsics)
    /\ pc' = "out_done"
    /\ UNCHANGED <<block_number, events, extrinsics, i, last_issuance_event,
                   in_output, in_log, j, out_output, out_log, all_output,
                   fn_input, fn_result, returned, tasks, stream, output_file,
                   file, stdout>>

\* A call of get_outgoing_xcm_transfers_at_block_hash on the empty block or on
\* any block of at most MaxExtrinsics extrinsics.
InitOutgoing ==
    /\ block_number \in BlockNumbers
    /\ events = <<>>
    /\ \/ extrinsics = <<>>
       \/ \E n \in 1..MaxExtrinsics, p \in 1..MaxExtrinsics, x \in ExtrinsicSet :
              /\ p <= n
              /\ \E f \in [(1..n) \ {p} -> FillerSet] :
                     extrinsics = OutgoingBlock(n, p, x, f)
    /\ pc = "out_start"
    /\ i = 1
    /\ last_issuance_event = None
    /\ in_output = <<>>
    /\ in_log = <<>>
    /\ j = 1
    /\ out_output = <<>>
    /\ out_log = <<>>
    /\ all_output = <<>>
    /\ fn_input = <<>>
    /\ fn_result = <<>>
    /\ stdout = <<>>
    /\ file = <<>>
    /\ output_file = FALSE
    /\ stream = <<>>
    /\ tasks = <<>>
    /\ returned = <<>>

NextOutgoing == OutgoingFetchBlock \/ OutgoingScanExtrinsic \/ OutgoingReturn

SpecOutgoing == InitOutgoing /\ [][NextOutgoing]_vars

----------------------------------------------------------------------------
(* Properties of the outgoing scan.  The vocabulary below reads the block  *)
(* and the history, not the functions of the scan.                         *)

\* The extrinsics scanned so far.
ScannedX == 1..Len(out_log)

RECURSIVE EmittedBefore(_)
EmittedBefore(x) == IF x <= 1 THEN 0 ELSE EmittedBefore(x - 1) + out_log[x - 1].emitted

\* The records output was extended by for extrinsic x.
RecordsOfX(x) ==
    SubSeq(out_output, EmittedBefore(x) + 1, EmittedBefore(x) + out_log[x].emitted)

LastAttempt(x) == out_log[x].attempts[Len(out_log[x].attempts)]

\* The outgoing scan did not fail at an extrinsic, and if it ended it went
\* through every extrinsic.
ScanXWentOn ==
    /\ pc \in {"out_scan", "out_done"}
    /\ pc = "out_scan" => j = Len(out_log) + 1
    /\ pc = "out_done" => Len(out_log) = Len(extrinsics)

\* C8: on each extrinsic the Teleport-call, the Reserve-transfer-call and the
\* Generic-transfer-call decodes are attempted in that order, each only after
\* the failure of the ones before; the records of the first success are the
\* ones used; if all three fail the extrinsic yields nothing, and the scan
\* goes on without an error.
C8_AttemptsInOrder ==
    \A x \in ScannedX :
        LET a == out_log[x].attempts
            n == Len(a)
        IN /\ n \in 1..3
           /\ \A k \in 1..n : a[k].shape = CallShapes[k]
           /\ \A k \in 1..(n - 1) : ~a[k].ok
           /\ a[n].ok => RecordsOfX(x) = a[n].records /\ extrinsics[x].call = CallShapes[n]
           /\ ~a[n].ok => n = 3 /\ out_log[x].emitted = 0
           /\ ScanXWentOn

\* C8 witness: a scan that ended on a Generic-transfer-call used at the third
\* attempt for two records, next to an extrinsic on which the three attempts failed.
C8_Witness ==
    /\ pc = "out_done"
    /\ \E x \in ScannedX, y \in ScannedX :
           /\ Len(out_log[x].attempts) = 3 /\ LastAttempt(x).ok
           /\ out_log[x].emitted = 2
           /\ Len(out_log[y].attempts) = 3 /\ ~LastAttempt(y).ok

\* An extrinsic that decodes as a known transfer call: the call is one of the
\* three, its arguments decode, its destination is V3 and its beneficiary is a
\* V3 location of one AccountId32 or AccountKey20 junction.
KnownCallDecoded(x) ==
    LET e == extrinsics[x]
    IN /\ e.call \in Calls
       /\ e.decodes
       /\ e.dest.version = "V3"
       /\ e.beneficiary.version = "V3"
       /\ Len(e.beneficiary.value.interior) = 1
       /\ e.beneficiary.value.interior[1][1] \in {"AccountId32", "AccountKey20"}

\* The five recognised shapes of a destination.
RecognisedDest(loc) ==
    \/ loc.parents = 1 /\ loc.interior = <<>>
    \/ loc.parents = 1 /\ Len(loc.interior) = 1 /\ loc.interior[1][1] = "Parachain"
    \/ /\ loc.parents = 2 /\ Len(loc.interior) = 1
       /\ loc.interior[1][1] = "GlobalConsensus"
       /\ loc.interior[1][2][1] \in {"Ethereum", "Kusama"}
    \/ /\ loc.parents = 2 /\ Len(loc.interior) = 2
       /\ loc.interior[1] = <<"GlobalConsensus", <<"Kusama">>>>
       /\ loc.interior[2][1] = "Parachain"

\* The assets of a call that yield a record: fungible, at {1, Here}, at
\* {1, [Parachain(id)]} or, for the two calls other than the Teleport-call, at
\* {0, [PalletInstance(50), GeneralIndex(id)]}.
SupportedAsset(call, asset) ==
    /\ asset.id = "Concrete"
    /\ asset.fun = "Fungible"
    /\ \/ asset.loc.parents = 1 /\ asset.loc.interior = <<>>
       \/ /\ asset.loc.parents = 1 /\ Len(asset.loc.interior) = 1
          /\ asset.loc.interior[1][1] = "Parachain"
       \/ /\ call # "LimitedTeleportAssets"
          /\ asset.loc.parents = 0 /\ Len(asset.loc.interior) = 2
          /\ asset.loc.interior[1] = <<"PalletInstance", 50>>
          /\ asset.loc.interior[2][1] = "GeneralIndex"

\* The assets of extrinsic x the call supports, in the order of the list.
SupportedAssetsOf(x) ==
    LET e == extrinsics[x]
        Supported(a) == SupportedAsset(e.call, a)
    IN IF e.assets.version = "V3" THEN SelectSeq(e.assets.value, Supported) ELSE <<>>

\* The metadata of a supported asset of extrinsic x, other than the native
\* one, could not be fetched.
FetchFailedAt(x) ==
    LET e == extrinsics[x]
    IN \E k \in 1..Len(e.assets.value) :
           /\ SupportedAsset(e.call, e.assets.value[k])
           /\ e.assets.value[k].loc # [parents |-> 1, interior |-> <<>>]
           /\ out_log[x].fetches[k] = "fetch_error"

\* Extrinsic x yielded one record per supported asset, in the order of the list.
OneRecordPerSupportedAsset(x) ==
    /\ out_log[x].emitted = Len(SupportedAssetsOf(x))
    /\ \A n \in 1..Len(SupportedAssetsOf(x)) :
           RecordsOfX(x)[n].amount.value = SupportedAssetsOf(x)[n].amount

\* C9 (as stated): a decoded call whose destination is none of the five
\* recognised shapes contributes no record.
C9_UnsupportedDestinationDropped ==
    \A x \in ScannedX :
        KnownCallDecoded(x) /\ ~RecognisedDest(extrinsics[x].dest.value) =>
            out_log[x].emitted = 0

\* C9 (amended): such a call is not dropped: it contributes one record per
\* supported asset, each with the destination Unsupported (and none if a
\* metadata fetch fails).
C9_UnsupportedDestinationRecorded ==
    \A x \in ScannedX :
        KnownCallDecoded(x) /\ ~RecognisedDest(extrinsics[x].dest.value) =>
            IF FetchFailedAt(x)
            THEN out_log[x].emitted = 0
            ELSE /\ OneRecordPerSupportedAsset(x)
                 /\ \A n \in 1..out_log[x].emitted :
                        RecordsOfX(x)[n].destination_chain = <<"Unsupported">>

\* C9 witness: a record with the destination Unsupported, of a call sent to
\* {parents: 0, [Parachain(2004)]}.
C9_Witness ==
    \E x \in ScannedX :
        /\ KnownCallDecoded(x)
        /\ extrinsics[x].dest.value.parents = 0
        /\ out_log[x].emitted = 1
        /\ RecordsOfX(x)[1].destination_chain = <<"Unsupported">>

\* An asset of extrinsic x is not fungible or at none of the three shapes.
HasUnsupportedAsset(x) ==
    LET e == extrinsics[x]
    IN /\ e.assets.version = "V3"
       /\ \E k \in 1..Len(e.assets.value) : ~SupportedAsset("TransferAssets", e.assets.value[k])

----------------------------------------------------------------------------
(* helpers.rs: get_all_transfers_at_block_hash                             *)

\* types.rs: enum XcmTransfer
ReceivedTransfer(incoming_transfer) == <<"ReceivedTransfer", incoming_transfer>>

SentTransfer(outgoing_transfer) == <<"SentTransfer", outgoing_transfer>>

\* A bug to tell from push_each: the transfers are put in front of the output.
push_each_in_front(output, transfers) == transfers \o output

\* helpers.rs:104-107 and :111-112: into_iter().for_each(|t| output.push(..))
push_each(output, transfers) == output \o transfers

\* The events and the extrinsics of the blocks get_all_transfers_at_block_hash
\* is called on: issuances with and without a metadata fetch, two origins, and
\* calls with and without a metadata fetch.
AllEventSet ==
    { Minted("Finalization", TRUE, "acc_X", 12),
      AssetsIssued("Finalization", 1984, "acc_Y", 15),
      Processed("Finalization", TRUE, Parent, TRUE),
      Processed("Finalization", TRUE, Sibling(2004), TRUE) }

AllExtrinsicSet ==
    { Extrinsic("LimitedTeleportAssets", TRUE, DestPolkadot, BeneficiaryY,
                Versioned("V3", <<AssetDot>>), SignedBy("acc_X")),
      Extrinsic("LimitedReserveTransferAssets", TRUE, DestPara2004, BeneficiaryY,
                Versioned("V3", <<AssetLocal>>), SignedBy("acc_X")),
      Extrinsic("Other", TRUE, DestPolkadot, BeneficiaryY,
                Versioned("V3", <<AssetDot>>), None) }

\* helpers.rs:102-107: the incoming query returned Ok, its records are pushed
\* as ReceivedTransfer and the outgoing query is called.
AllIncomingOk ==
    /\ pc = "in_done"
    /\ all_output' = push_each(all_output,
                               [n \in 1..Len(in_output) |-> ReceivedTransfer(in_output[n])])
    /\ pc' = "out_start"
    /\ UNCHANGED <<block_number, events, extrinsics, i, last_issuance_event,
                   in_output, in_log, j, out_output, out_log,
                   fn_input, fn_result, returned, tasks, stream, output_file,
                   file, stdout>>

\* helpers.rs:103: `.await?` on an Err of the incoming query
AllIncomingErr ==
    /\ pc = "in_failed"
    /\ pc' = "all_failed"
    /\ UNCHANGED <<block_number, events, extrinsics, i, last_issuance_event,
                   in_output, in_log, j, out_output, out_log, all_output,
                   fn_input, fn_result, returned, tasks, stream, output_file,
                   file, stdout>>

\* helpers.rs:109-114: the outgoing query returned Ok, its records are pushed
\* as SentTransfer and Ok(output) is returned.
AllOutgoingOk ==
    /\ pc = "out_done"
    /\ all_output' = push_each(all_output,
                               [n \in 1..Len(out_output) |-> SentTransfer(out_output[n])])
    /\ pc' = "all_done"
    /\ UNCHANGED <<block_number, events, extrinsics, i, last_issuance_event,
                   in_output, in_log, j, out_output, out_log,
                   fn_input, fn_result, returned, tasks, stream, output_file,
                   file, stdout>>

\* helpers.rs:110: `.await?` on an Err of the outgoing query
AllOutgoingErr ==
    /\ pc = "out_failed"
    /\ pc' = "all_failed"
    /\ UNCHANGED <<block_number, events, extrinsics, i, last_issuance_event,
                   in_output, in_log, j, out_output, out_log, all_output,
                   fn_input, fn_result, returned, tasks, stream, output_file,
                   file, stdout>>

\* A call of get_all_transfers_at_block_hash on a block of at most
\* MaxPairedEvents events and MaxExtrinsics extrinsics: it starts with the
\* incoming query.
InitAll ==
    /\ block_number \in BlockNumbers
    /\ events \in SeqsUpTo(AllEventSet, MaxPairedEvents)
    /\ extrinsics \in SeqsUpTo(AllExtrinsicSet, MaxExtrinsics)
    /\ pc = "in_start"
    /\ i = 1
    /\ last_issuance_event = None
    /\ in_output = <<>>
    /\ in_log = <<>>
    /\ j = 1
    /\ out_output = <<>>
    /\ out_log = <<>>
    /\ all_output = <<>>
    /\ fn_input = <<>>
    /\ fn_result = <<>>
    /\ stdout = <<>>
    /\ file = <<>>
    /\ output_file = FALSE
    /\ stream = <<>>
    /\ tasks = <<>>
    /\ returned = <<>>

NextAll ==
    \/ IncomingFetchBlock \/ IncomingScanEvent \/ IncomingReturn
    \/ AllIncomingOk \/ AllIncomingErr
    \/ OutgoingFetchBlock \/ OutgoingScanExtrinsic \/ OutgoingReturn
    \/ AllOutgoingOk \/ AllOutgoingErr

SpecAll == InitAll /\ [][NextAll]_vars

\* The call of get_all_transfers_at_block_hash returned.
AllReturned == pc \in {"all_done", "all_failed"}

\* A metadata lookup made while building a record failed.
MetadataFetchFailed ==
    \/ \E p \in 1..Len(in_log) : in_log[p].fetch = "fetch_error"
    \/ \E x \in 1..Len(out_log) :
           \E k \in 1..Len(extrinsics[x].assets.value) :
               /\ extrinsics[x].call \in Calls
               /\ SupportedAsset(extrinsics[x].call, extrinsics[x].assets.value[k])
               /\ extrinsics[x].assets.value[k].loc # [parents |-> 1, interior |-> <<>>]
               /\ out_log[x].fetches[k] = "fetch_error"

\* C11 (as stated): whenever a fetch of the block query fails, a metadata
\* lookup included, get_all_transfers_at_block_hash returns an error and no
\* record list.
C11_AnyFetchFailureIsReturned ==
    AllReturned /\ MetadataFetchFailed => pc = "all_failed"

\* C11 witness: the call returned a record list although a metadata lookup of
\* the block query had failed.
C11_Witness == pc = "all_done" /\ MetadataFetchFailed

----------------------------------------------------------------------------
(* Functions called on their own                                           *)

\* The junctions of the locations the functions are called on.
FnJunctions ==
    { Parachain(2004), Parachain(3370), GlobalConsensus(Ethereum(1)),
      GlobalConsensus(Kusama), PalletInstance(AssetsPalletInstance),
      GeneralIndex(U128(0, 3014)) }

\* An interior of n junctions that starts with first:
\* [first, PalletInstance(50), GeneralIndex(3014), GeneralIndex(3014), ..].
LongInterior(first, n) ==
    [k \in 1..n |-> IF k = 1 THEN first
                    ELSE IF k = 2 THEN PalletInstance(AssetsPalletInstance)
                    ELSE GeneralIndex(U128(0, 3014))]

\* The locations: every parents up to MaxParents, with every interior of at
\* most two junctions and interiors of every length up to X8.
FnLocations ==
    { Location(parents, interior) :
        parents \in 0..MaxParents,
        interior \in SeqsUpTo(FnJunctions, 2)
            \cup {LongInterior(first, n) : first \in FnJunctions, n \in 3..MaxJunctions} }

FnCall(fn, location, para_id) == [fn |-> fn, location |-> location, para_id |-> para_id]

\* outgoing_parser.rs:128: location.into()
CallDestinationChainFrom ==
    /\ pc = "fn_call"
    /\ fn_input.fn = "DestinationChainFrom"
    /\ fn_result' = Some(DestinationChainFrom(fn_input.location))
    /\ pc' = "fn_returned"
    /\ UNCHANGED <<block_number, events, extrinsics, i, last_issuance_event,
                   in_output, in_log, j, out_output, out_log, all_output, fn_input,
                   returned, tasks, stream, output_file, file, stdout>>

\* helpers.rs:28: a call of is_teleportable_to_sibling
CallIsTeleportableToSibling ==
    /\ pc = "fn_call"
    /\ fn_input.fn = "is_teleportable_to_sibling"
    /\ fn_result' = Some(is_teleportable_to_sibling(fn_input.location, fn_input.para_id))
    /\ pc' = "fn_returned"
    /\ UNCHANGED <<block_number, events, extrinsics, i, last_issuance_event,
                   in_output, in_log, j, out_output, out_log, all_output, fn_input,
                   returned, tasks, stream, output_file, file, stdout>>

\* The ids the local resolver is called on: 1984, 1337 and 666 have a
\* metadata entry, 42 and 3014 have none.
FnAssetIds == {1984, 1337, 666, 42, 3014}

\* A call of a resolver: the identity and the outcome of storage_api.fetch.
FnResolve(fn, asset_id, fetch) == [fn |-> fn, asset_id |-> asset_id, fetch |-> fetch]

\* What a resolver returned, and the outcomes of the fetches it made.
Resolved(val, fetches) == [val |-> val, fetches |-> fetches]

\* helpers.rs:54: a call of extract_asset_metadata_values; the one fetch is
\* at :59.
CallExtractAssetMetadataValues ==
    /\ pc = "fn_call"
    /\ fn_input.fn = "extract_asset_metadata_values"
    /\ fn_result' = Some(Resolved(extract_asset_metadata_values(fn_input.fetch, fn_input.asset_id),
                                  <<fn_input.fetch>>))
    /\ pc' = "fn_returned"
    /\ UNCHANGED <<block_number, events, extrinsics, i, last_issuance_event,
                   in_output, in_log, j, out_output, out_log, all_output, fn_input,
                   returned, tasks, stream, output_file, file, stdout>>

\* helpers.rs:69: a call of extract_foreign_asset_metadata_values; the one
\* fetch is at :74.
CallExtractForeignAssetMetadataValues ==
    /\ pc = "fn_call"
    /\ fn_input.fn = "extract_foreign_asset_metadata_values"
    /\ fn_result' = Some(Resolved(extract_foreign_asset_metadata_values(fn_input.fetch,
                                                                        fn_input.asset_id),
                                  <<fn_input.fetch>>))
    /\ pc' = "fn_returned"
    /\ UNCHANGED <<block_number, events, extrinsics, i, last_issuance_event,
                   in_output, in_log, j, out_output, out_log, all_output, fn_input,
                   returned, tasks, stream, output_file, file, stdout>>

\* Unsigned integers wider than the integers of TLC, as little-endian
\* sequences of 16-bit limbs: a u128 has U128Limbs of them.
LimbBase == 65536

U128Limbs == 8

\* The decimals to_decimal_f64 is called with are 0..MaxDecimals: 10^38 is the
\* last power of ten below 2^128.
MaxDecimals == 40

\* The limbs of n < 2^31, n as the unsigned integer of `limbs` limbs.
FromNat(n, limbs) ==
    [k \in 1..limbs |->
        IF k = 1 THEN n % LimbBase ELSE IF k = 2 THEN n \div LimbBase ELSE 0]

\* The one element of a set of one element: Only({e(v) : v \in {d}}) is e with
\* d computed once.
Only(S) == CHOOSE v \in S : TRUE

\* x * m + carry for a small m, limb k onwards: the limbs of the product that
\* fit, followed by the carry out of the last limb.
RECURSIVE MulSmallFrom(_, _, _, _)
MulSmallFrom(x, m, k, carry) ==
    IF k > Len(x)
    THEN <<carry>>
    ELSE Only({ <<p % LimbBase>> \o MulSmallFrom(x, m, k + 1, p \div LimbBase) :
                p \in {x[k] * m + carry} })

\* x * m for a small m: the product modulo LimbBase^Len(x), and whether the
\* product is more than that.
MulSmall(x, m) ==
    Only({ [val |-> SubSeq(product, 1, Len(x)), overflowed |-> product[Len(x) + 1] > 0] :
           product \in {MulSmallFrom(x, m, 1, 0)} })

\* The factors of ten multiplied in at once, of exp > 0 that are left: a limb
\* times 10^4 is an integer of TLC.
Tens(exp) == IF exp % 4 = 0 THEN 4 ELSE exp % 4

\* helpers.rs:93: 10u128.pow(decimals as u32).  val is the product modulo
\* 2^128, overflowed tells whether a multiplication overflowed: pow then
\* panics in a build with overflow checks and goes on with val in one without.
\* The factors of ten are multiplied in up to four at a time.
RECURSIVE pow10_u128(_)
pow10_u128(exp) ==
    IF exp = 0
    THEN [val |-> FromNat(1, U128Limbs), overflowed |-> FALSE]
    ELSE Only({ Only({ [val |-> product.val,
                        overflowed |-> before.overflowed \/ product.overflowed] :
                       product \in {MulSmall(before.val, 10 ^ Tens(exp))} }) :
                before \in {pow10_u128(exp - Tens(exp))} })

\* value as f64 / factor, kept as the two terms of the quotient.
Quotient(value, factor) == [value |-> value, factor |-> factor]

\* helpers.rs:92-95 on a u128 value, in a build with or without overflow checks
to_decimal_f64_u128(overflow_checks, value, decimals) ==
    Only({ IF factor.overflowed /\ overflow_checks
           THEN Err("Panic")
           ELSE Ok(Quotient(value, factor.val)) :
           factor \in {pow10_u128(decimals)} })

\* helpers.rs:208: 10_000_000_000_000 as a u128
TenTrillion == MulSmall(FromNat(1000000000, U128Limbs), 10000).val

\* The values to_decimal_f64 is called on: 0, 123, 123456789 and
\* 10_000_000_000_000.
FnValues ==
    { FromNat(0, U128Limbs), FromNat(123, U128Limbs), FromNat(123456789, U128Limbs),
      TenTrillion }

\* A call of to_decimal_f64 in a build with or without overflow checks.
FnNormalize(fn, value, decimals, overflow_checks) ==
    [fn |-> fn, value |-> value, decimals |-> decimals, overflow_checks |-> overflow_checks]

\* helpers.rs:92: a call of to_decimal_f64
CallToDecimalF64 ==
    /\ pc = "fn_call"
    /\ fn_input.fn = "to_decimal_f64"
    /\ fn_result' = Some(to_decimal_f64_u128(fn_input.overflow_checks, fn_input.value,
                                             fn_input.decimals))
    /\ pc' = "fn_returned"
    /\ UNCHANGED <<block_number, events, extrinsics, i, last_issuance_event,
                   in_output, in_log, j, out_output, out_log, all_output, fn_input,
                   returned, tasks, stream, output_file, file, stdout>>

\* A call of one of the functions on any of its inputs.
InitFunctions ==
    /\ block_number \in BlockNumbers
    /\ events = <<>>
    /\ extrinsics = <<>>
    /\ pc = "fn_call"
    /\ i = 1
    /\ last_issuance_event = None
    /\ in_output = <<>>
    /\ in_log = <<>>
    /\ j = 1
    /\ out_output = <<>>
    /\ out_log = <<>>
    /\ all_output = <<>>
    /\ \/ \E location \in FnLocations :
              fn_input = FnCall("DestinationChainFrom", location, 0)
       \/ \E location \in FnLocations, para_id \in ParaIds :
              fn_input = FnCall("is_teleportable_to_sibling", location, para_id)
       \/ \E asset_id \in FnAssetIds, fetch \in FetchOutcomes :
              fn_input = FnResolve("extract_asset_metadata_values", asset_id, fetch)
       \/ \E asset_id \in FnLocations, fetch \in FetchOutcomes :
              fn_input = FnResolve("extract_foreign_asset_metadata_values", asset_id, fetch)
       \/ \E value \in FnValues, decimals \in 0..MaxDecimals, overflow_checks \in BOOLEAN :
              fn_input = FnNormalize("to_decimal_f64", value, decimals, overflow_checks)
    /\ fn_result = None
    /\ stdout = <<>>
    /\ file = <<>>
    /\ output_file = FALSE
    /\ stream = <<>>
    /\ tasks = <<>>
    /\ returned = <<>>

NextFunctions ==
    \/ CallDestinationChainFrom
    \/ CallIsTeleportableToSibling
    \/ CallExtractAssetMetadataValues
    \/ CallExtractForeignAssetMetadataValues
    \/ CallToDecimalF64

SpecFunctions == InitFunctions /\ [][NextFunctions]_vars

\* The function fn returned.
Returned(fn) == pc = "fn_returned" /\ fn_input.fn = fn

\* C12: a destination {1, Here} is classified Polkadot, {1, [Parachain(id)]}
\* PolkadotParachain(id), {2, [GlobalConsensus(Ethereum{chain_id})]}
\* Ethereum(chain_id), {2, [GlobalConsensus(Kusama)]} Kusama,
\* {2, [GlobalConsensus(Kusama), Parachain(id)]} KusamaParachain(id), and every
\* other location Unsupported, those with parents outside {1, 2} included.
C12_DestinationClassified ==
    Returned("DestinationChainFrom") =>
        LET parents == fn_input.location.parents
            interior == fn_input.location.interior
            chain == Unwrap(fn_result)
        IN /\ parents = 1 /\ interior = <<>> => chain = <<"Polkadot">>
           /\ \A id \in ParaIds :
                  parents = 1 /\ interior = <<Parachain(id)>> =>
                      chain = <<"PolkadotParachain", id>>
           /\ parents = 2 /\ interior = <<GlobalConsensus(Ethereum(1))>> =>
                  chain = <<"Ethereum", 1>>
           /\ parents = 2 /\ interior = <<GlobalConsensus(Kusama)>> => chain = <<"Kusama">>
           /\ \A id \in ParaIds :
                  parents = 2 /\ interior = <<GlobalConsensus(Kusama), Parachain(id)>> =>
                      chain = <<"KusamaParachain", id>>
           /\ ~RecognisedDest(fn_input.location) => chain = <<"Unsupported">>
           /\ parents \notin {1, 2} => chain = <<"Unsupported">>

\* C12 witness: {2, [GlobalConsensus(Kusama), Parachain(2004)]} was classified
\* KusamaParachain(2004).
C12_Witness ==
    /\ Returned("DestinationChainFrom")
    /\ fn_input.location = Location(2, <<GlobalConsensus(Kusama), Parachain(2004)>>)
    /\ fn_result = Some(<<"KusamaParachain", 2004>>)

\* C16: is_teleportable_to_sibling(loc, P) is true iff loc.parents = 1 and the
\* interior of loc is not empty and starts with Parachain(P), whatever the
\* parents and for every length of the interior from 0 to 8; it is true for
\* {1, [Parachain(2004), PalletInstance(50), GeneralIndex(3014)]} against 2004
\* and false against 3370.
C16_TeleportableIffConcreteForSibling ==
    Returned("is_teleportable_to_sibling") =>
        LET loc == fn_input.location
            P == fn_input.para_id
        IN /\ Unwrap(fn_result) =
                  (loc.parents = 1 /\ Len(loc.interior) >= 1
                      /\ loc.interior[1][1] = "Parachain" /\ loc.interior[1][2] = P)
           /\ loc = Location(1, <<Parachain(2004), PalletInstance(50),
                                  GeneralIndex(U128(0, 3014))>>) =>
                  Unwrap(fn_result) = (P = 2004)

\* C16 witness: true was returned for an interior of 8 junctions that starts
\* with Parachain(3370), against 3370.
C16_Witness ==
    /\ Returned("is_teleportable_to_sibling")
    /\ fn_input.location.parents = 1
    /\ Len(fn_input.location.interior) = 8
    /\ fn_input.location.interior[1] = Parachain(3370)
    /\ fn_input.para_id = 3370
    /\ fn_result = Some(TRUE)

----------------------------------------------------------------------------
(* Properties of the records of the outgoing scan                          *)

\* C13: every record of a Teleport-call extrinsic has transfer_type Teleport
\* and every record of a Reserve-transfer-call extrinsic has transfer_type
\* Reserve, whatever the asset and the destination.
C13_TransferTypeOfTheCall ==
    \A x \in ScannedX :
        \A n \in 1..out_log[x].emitted :
            /\ extrinsics[x].call = "LimitedTeleportAssets" =>
                   RecordsOfX(x)[n].transfer_type = "Teleport"
            /\ extrinsics[x].call = "LimitedReserveTransferAssets" =>
                   RecordsOfX(x)[n].transfer_type = "Reserve"

\* C13 witness: a block with a Reserve record of DOT sent to the relay chain by
\* a Reserve-transfer-call and a Teleport record of a Teleport-call.
C13_Witness ==
    /\ pc = "out_done"
    /\ \E x \in ScannedX :
           /\ extrinsics[x].call = "LimitedReserveTransferAssets"
           /\ extrinsics[x].dest = DestPolkadot
           /\ extrinsics[x].assets.value = <<AssetDot>>
           /\ out_log[x].emitted = 1
           /\ RecordsOfX(x)[1].transfer_type = "Reserve"
    /\ \E y \in ScannedX :
           /\ extrinsics[y].call = "LimitedTeleportAssets"
           /\ out_log[y].emitted = 1
           /\ RecordsOfX(y)[1].transfer_type = "Teleport"

\* The transfer type of the record of a supported asset of a
\* Generic-transfer-call sent to dest: the native token is teleported to the
\* relay chain only, a local asset never, the token of sibling p to sibling p
\* under the relay chain only.
GenericTransferType(asset, dest) ==
    IF asset.loc.parents = 1 /\ asset.loc.interior = <<>>
    THEN IF dest.parents = 1 /\ dest.interior = <<>> THEN "Teleport" ELSE "Reserve"
    ELSE IF asset.loc.parents = 0
    THEN "Reserve"
    ELSE IF dest.parents = 1 /\ dest.interior = <<asset.loc.interior[1]>>
    THEN "Teleport"
    ELSE "Reserve"

\* C14: each record of a Generic-transfer-call has the transfer type of its
\* asset and destination: NativeToken is Teleport iff the destination is the
\* relay chain; LocalAsset is Reserve; the token of sibling p is Teleport iff
\* the destination is sibling p under the relay chain.
C14_GenericTransferType ==
    \A x \in ScannedX :
        extrinsics[x].call = "TransferAssets" /\ out_log[x].emitted > 0 =>
            /\ out_log[x].emitted = Len(SupportedAssetsOf(x))
            /\ \A n \in 1..out_log[x].emitted :
                   RecordsOfX(x)[n].transfer_type =
                       GenericTransferType(SupportedAssetsOf(x)[n], extrinsics[x].dest.value)

\* C14 witness: a Generic-transfer-call of the token of sibling 2004 recorded
\* as a Reserve transfer to sibling 3370.
C14_Witness ==
    \E x \in ScannedX :
        /\ extrinsics[x].call = "TransferAssets"
        /\ extrinsics[x].assets.value = <<AssetForeign>>
        /\ extrinsics[x].dest.value = Location(1, <<Parachain(3370)>>)
        /\ out_log[x].emitted = 1
        /\ RecordsOfX(x)[1].transfer_type = "Reserve"

\* The name the record of a supported asset carries when its lookup succeeds:
\* DOT for {1, Here}, what Assets.Metadata holds for the id of
\* {0, [PalletInstance(50), GeneralIndex(id)]}, what ForeignAssets.Metadata
\* holds for {1, [Parachain(id)]}.
IdentityName(asset) ==
    IF asset.loc.parents = 1 /\ asset.loc.interior = <<>>
    THEN <<"DOT">>
    ELSE IF asset.loc.parents = 0
    THEN extract_asset_metadata_values("fetched", asset.loc.interior[2][2].lo).val.asset_name
    ELSE extract_foreign_asset_metadata_values("fetched", asset.loc).val.asset_name

\* The assets of extrinsic x at one of the three shapes, in the order of the list.
ThreeShapeAssetsOf(x) ==
    LET Shaped(a) == SupportedAsset("TransferAssets", a)
    IN IF extrinsics[x].assets.version = "V3"
       THEN SelectSeq(extrinsics[x].assets.value, Shaped) ELSE <<>>

CallAndDestDecoded(x) ==
    /\ extrinsics[x].call \in Calls
    /\ extrinsics[x].decodes
    /\ extrinsics[x].dest.version = "V3"

\* C17: the beneficiary of a decoded call is the generic-encoding text address
\* of the account when its interior is one AccountId32 junction, the hex string
\* of the key when it is one AccountKey20 junction; with a beneficiary of any
\* other shape the extrinsic contributes no record.
C17_BeneficiaryRendered ==
    \A x \in ScannedX :
        CallAndDestDecoded(x) =>
            LET beneficiary == extrinsics[x].beneficiary
                interior == beneficiary.value.interior
                single == beneficiary.version = "V3" /\ Len(interior) = 1
            IN IF single /\ interior[1][1] = "AccountId32"
               THEN \A n \in 1..out_log[x].emitted :
                        RecordsOfX(x)[n].beneficiary = <<"ss58", 42, interior[1][2]>>
               ELSE IF single /\ interior[1][1] = "AccountKey20"
               THEN \A n \in 1..out_log[x].emitted :
                        RecordsOfX(x)[n].beneficiary = <<"0x", "hex", interior[1][2]>>
               ELSE out_log[x].emitted = 0

\* C17 witness: a block with a record whose beneficiary is the hex string of an
\* AccountKey20 and a record whose beneficiary is the address of an AccountId32.
C17_Witness ==
    /\ \E x \in ScannedX :
           /\ out_log[x].emitted = 1
           /\ RecordsOfX(x)[1].beneficiary = <<"0x", "hex", "key_Z">>
    /\ \E y \in ScannedX :
           /\ out_log[y].emitted = 1
           /\ RecordsOfX(y)[1].beneficiary = <<"ss58", 42, "acc_Y">>

----------------------------------------------------------------------------
(* The outgoing scan on extrinsics signed with any MultiAddress variant     *)

\* Extrinsics of every transfer call that are unsigned, signed with an account
\* id (33 address bytes) and signed with an Address20 (21 address bytes), and a
\* call of another pallet signed with an Address20.
SenderExtrinsicSet ==
    {Extrinsic(c, TRUE, DestPolkadot, BeneficiaryY, Versioned("V3", <<AssetDot>>), s) :
        c \in Calls,
        s \in {None, SignedBy("acc_X"), SignedByOther(4, "key_Z", 20)}}
    \cup {Extrinsic("Other", TRUE, DestPolkadot, BeneficiaryY, Versioned("V3", <<AssetDot>>),
                    SignedByOther(4, "key_Z", 20))}

\* A call of get_outgoing_xcm_transfers_at_block_hash on a block of at most
\* MaxExtrinsics extrinsics of SenderExtrinsicSet.
InitSender ==
    /\ block_number \in BlockNumbers
    /\ events = <<>>
    /\ extrinsics \in SeqsUpTo(SenderExtrinsicSet, MaxExtrinsics)
    /\ pc = "out_start"
    /\ i = 1
    /\ last_issuance_event = None
    /\ in_output = <<>>
    /\ in_log = <<>>
    /\ j = 1
    /\ out_output = <<>>
    /\ out_log = <<>>
    /\ all_output = <<>>
    /\ fn_input = <<>>
    /\ fn_result = <<>>
    /\ stdout = <<>>
    /\ file = <<>>
    /\ output_file = FALSE
    /\ stream = <<>>
    /\ tasks = <<>>
    /\ returned = <<>>

SpecSender == InitSender /\ [][NextOutgoing]_vars

\* C18 (as stated): for every extrinsic that decodes as a known transfer call
\* the sender is total: the own-chain text address of the signer when signed,
\* 'Unsigned message' when unsigned, and building it never aborts the scan,
\* whatever the length of the signer's address bytes.
C18_SenderTotal ==
    /\ pc # "out_panicked"
    /\ \A x \in ScannedX :
           KnownCallDecoded(x) =>
               /\ out_log[x].emitted = 1
               /\ RecordsOfX(x)[1].sender =
                      IF extrinsics[x].signer = <<>>
                      THEN <<"Unsigned message">>
                      ELSE <<"ss58", 0, extrinsics[x].signer[1][2]>>

\* C18 witness: the scan was aborted at a transfer call signed with address
\* bytes that are not 33 long, after an unsigned one got 'Unsigned message'.
C18_Witness ==
    /\ pc = "out_panicked"
    /\ Len(out_log) = 2
    /\ extrinsics[1].signer = <<>>
    /\ out_output[1].sender = <<"Unsigned message">>
    /\ extrinsics[2].signer[1][3] # 32
    /\ out_log[2].emitted = 0


\* The resolver fn returned after a fetch that found no entry for the identity.
ResolvedMissing(fn, storage_entry) ==
    /\ Returned(fn)
    /\ fn_input.fetch = "fetched"
    /\ storage_entry = None

\* The names of an identity without a usable stored name, as the resolvers
\* build them.
MissingNames(asset_id) ==
    { <<"Asset id: ", asset_id>>, <<"Asset Id: ", asset_id>>, <<"Asset location: ", asset_id>> }

\* C19: when the lookup finds no entry, the resolver returns Ok with decimals 0
\* and the name 'Asset id: <id>' for a local asset, 'Asset location: <loc>'
\* for a foreign asset, and it made exactly one storage fetch.
C19_MissingEntryPlaceholder ==
    /\ ResolvedMissing("extract_asset_metadata_values", AssetsMetadataStorage(fn_input.asset_id))
           => /\ Unwrap(fn_result).val
                     = Ok([asset_name |-> <<"Asset id: ", fn_input.asset_id>>, decimals |-> 0])
              /\ Len(Unwrap(fn_result).fetches) = 1
    /\ ResolvedMissing("extract_foreign_asset_metadata_values", ForeignAssetsMetadataStorage(fn_input.asset_id))
           => /\ Unwrap(fn_result).val
                     = Ok([asset_name |-> <<"Asset location: ", fn_input.asset_id>>,
                           decimals |-> 0])
              /\ Len(Unwrap(fn_result).fetches) = 1

\* C19, witness: the local resolver returned Ok with decimals 0 for the id 42,
\* which has no entry, after one fetch.
C19_Witness ==
    /\ ResolvedMissing("extract_asset_metadata_values", AssetsMetadataStorage(fn_input.asset_id))
    /\ fn_input.asset_id = 42
    /\ Unwrap(fn_result).val.ok
    /\ Unwrap(fn_result).val.val.decimals = 0
    /\ Unwrap(fn_result).val.val.asset_name \in MissingNames(42)
    /\ Len(Unwrap(fn_result).fetches) = 1

----------------------------------------------------------------------------
(* Items the scans have no use for                                         *)

\* The events of the blocks whose items the scans have no use for: an error
\* item, an event no arm matches, a Minted and a Processed event whose fields
\* do not decode, and a Minted and a Processed event that make a record.
SkippedEventSet ==
    { ErrorEvent,
      Deposit("Finalization"),
      Minted("Finalization", TRUE, "acc_X", 12),
      Minted("Finalization", FALSE, "acc_X", 14),
      Processed("Finalization", TRUE, Parent, TRUE),
      Processed("Finalization", FALSE, Parent, TRUE) }

\* Their extrinsics: a teleport of DOT and a call that is no transfer call.
SkippedExtrinsicSet ==
    { Extrinsic("LimitedTeleportAssets", TRUE, DestPolkadot, BeneficiaryY,
                Versioned("V3", <<AssetDot>>), SignedBy("acc_X")),
      Extrinsic("Other", TRUE, DestPolkadot, BeneficiaryY,
                Versioned("V3", <<AssetDot>>), None) }

\* A call of get_all_transfers_at_block_hash on such a block.
InitSkipped ==
    /\ block_number \in BlockNumbers
    /\ events \in SeqsUpTo(SkippedEventSet, MaxEvents)
    /\ extrinsics \in SeqsUpTo(SkippedExtrinsicSet, MaxExtrinsics)
    /\ pc = "in_start"
    /\ i = 1
    /\ last_issuance_event = None
    /\ in_output = <<>>
    /\ in_log = <<>>
    /\ j = 1
    /\ out_output = <<>>
    /\ out_log = <<>>
    /\ all_output = <<>>
    /\ fn_input = <<>>
    /\ fn_result = <<>>
    /\ stdout = <<>>
    /\ file = <<>>
    /\ output_file = FALSE
    /\ stream = <<>>
    /\ tasks = <<>>
    /\ returned = <<>>

SpecSkipped == InitSkipped /\ [][NextAll]_vars

\* Item p of the event iterator is an error.
ErrorItem(p) == ~events[p].ok

\* Event p is none of the events the scan has an arm for.
NoExpectedShape(p) == events[p].ok /\ ~IssuanceClass(p) /\ ~ProcessedEvent(p)

\* Event p is of a kind the scan has an arm for, and its fields do not decode.
FieldsUndecodable(p) == (IssuanceClass(p) \/ ProcessedEvent(p)) /\ ~events[p].decodes

\* Extrinsic x is none of the three transfer calls.
NoKnownCall(x) == extrinsics[x].call \notin Calls

\* The scan of the events did not stop at an event: the next event is the one
\* scanned next, and a scan that is over went through every event.
EventScanWentOn ==
    /\ pc = "in_scan" => i = Len(in_log) + 1
    /\ pc # "in_scan" => Len(in_log) = Len(events)

\* The same for the scan of the extrinsics.
ExtrinsicScanWentOn ==
    /\ pc = "out_scan" => j = Len(out_log) + 1
    /\ pc # "out_scan" => Len(out_log) = Len(extrinsics)

\* Event p pushed no record and the scan went on.
NothingFrom(p) == in_log[p].emitted = 0 /\ EventScanWentOn

\* Extrinsic x pushed no record and the scan went on.
NothingFromX(x) == out_log[x].emitted = 0 /\ ExtrinsicScanWentOn

\* C20 (as stated): an event that cannot be decoded or matches no expected
\* shape pushes no record, leaves the pending issuance as it was, and the scan
\* goes on; an extrinsic that is no known call pushes no record and the scan
\* goes on.
C20_SkippedLeavesPending ==
    /\ \A p \in Scanned :
           ErrorItem(p) \/ NoExpectedShape(p) \/ FieldsUndecodable(p) =>
               NothingFrom(p) /\ in_log[p].after = in_log[p].before
    /\ \A x \in ScannedX : NoKnownCall(x) => NothingFromX(x)

\* C20 (amended): an error item and an event no arm matches push no record and
\* leave the pending issuance as it was; an event of an expected kind whose
\* fields do not decode pushes no record either, but a Processed one clears the
\* pending issuance and an issuance one becomes the pending issuance; the scan
\* goes on in every case.  An extrinsic that is no known call pushes no record
\* and the scan goes on.
C20_SkippedOrConsumed ==
    /\ \A p \in Scanned :
           /\ ErrorItem(p) \/ NoExpectedShape(p) =>
                  NothingFrom(p) /\ in_log[p].after = in_log[p].before
           /\ FieldsUndecodable(p) =>
                  /\ NothingFrom(p)
                  /\ in_log[p].after = IF ProcessedEvent(p) THEN None ELSE Some(p)
    /\ \A x \in ScannedX : NoKnownCall(x) => NothingFromX(x)

\* C20 witness: a call that returned, in which an error item or an event no arm
\* matches lay between a pending issuance and the Processed event that got its
\* record, and an extrinsic that is no known call was followed by one that got
\* a record.
C20_Witness ==
    /\ pc = "all_done"
    /\ \E p \in Scanned :
           /\ NoExpectedShape(p) \/ ErrorItem(p)
           /\ in_log[p].before # None
           /\ p < Len(events) /\ in_log[p + 1].emitted = 1
    /\ \E x \in ScannedX :
           /\ NoKnownCall(x)
           /\ x < Len(extrinsics) /\ out_log[x + 1].emitted = 1

----------------------------------------------------------------------------
(* The list get_all_transfers_at_block_hash returns                        *)

\* The number of records the events up to p pushed.
ReceivedUpTo(p) == Count(p, EmittedAt)

\* The incoming record of event p, as the block gives it: the origin of the
\* Processed event and the account of the issuance pending at it.
IsRecordOfEvent(transfer, p) ==
    /\ transfer[1] = "ReceivedTransfer"
    /\ transfer[2].origin_chain = events[p].origin
    /\ transfer[2].receiver = <<"ss58", 0, events[PendingBefore(p)].who>>
    /\ transfer[2].amount.value = events[PendingBefore(p)].amount

\* The n-th outgoing record of extrinsic x, as the block gives it: the
\* destination of the call and the identity of its n-th supported asset.
IsRecordOfExtrinsic(transfer, x, n) ==
    /\ transfer[1] = "SentTransfer"
    /\ transfer[2].destination_chain = DestinationChainFrom(extrinsics[x].dest.value)
    /\ transfer[2].asset = IdentityName(SupportedAssetsOf(x)[n])
    /\ transfer[2].amount.value = SupportedAssetsOf(x)[n].amount

\* C21: the list get_all_transfers_at_block_hash returns holds the incoming
\* records in the order of their Processed events, followed by the outgoing
\* records in the order of the extrinsics and of their assets; it holds nothing
\* else and nothing twice.
C21_IncomingThenOutgoing ==
    pc = "all_done" =>
        LET received == ReceivedUpTo(Len(events))
        IN /\ Len(all_output) = received + EmittedBefore(Len(extrinsics) + 1)
           /\ \A p \in Scanned :
                  EmittedAt(p) => IsRecordOfEvent(all_output[ReceivedUpTo(p)], p)
           /\ \A x \in ScannedX :
                  \A n \in 1..out_log[x].emitted :
                      IsRecordOfExtrinsic(all_output[received + EmittedBefore(x) + n], x, n)

\* C21 witness: a returned list of two incoming records of different origins
\* followed by two outgoing records of different assets.
C21_Witness ==
    /\ pc = "all_done"
    /\ Len(all_output) = 4
    /\ all_output[1][1] = "ReceivedTransfer" /\ all_output[2][1] = "ReceivedTransfer"
    /\ all_output[1][2].origin_chain # all_output[2][2].origin_chain
    /\ all_output[3][1] = "SentTransfer" /\ all_output[4][1] = "SentTransfer"
    /\ all_output[3][2].asset # all_output[4][2].asset

----------------------------------------------------------------------------
(* get_all_transfers_at_block_hash called again on the same block          *)

\* The calls made on one block.
MaxRuns == 2

\* What a call returned: Ok(output) or an error, and whether one of its
\* metadata lookups had failed.
RunResult(ok, val, lookup_failed) == [ok |-> ok, val |-> val, lookup_failed |-> lookup_failed]

\* helpers.rs:97-101: the call returned and the function is called again with
\* the same block hash; its locals start afresh, the block is the same.
AllCallAgain ==
    /\ pc \in {"all_done", "all_failed"}
    /\ Len(returned) < MaxRuns - 1
    /\ returned' = Append(returned,
                       IF pc = "all_done"
                       THEN RunResult(TRUE, all_output, MetadataFetchFailed)
                       ELSE RunResult(FALSE, <<"Subxt">>, MetadataFetchFailed))
    /\ pc' = "in_start"
    /\ i' = 1
    /\ last_issuance_event' = None
    /\ in_output' = <<>>
    /\ in_log' = <<>>
    /\ j' = 1
    /\ out_output' = <<>>
    /\ out_log' = <<>>
    /\ all_output' = <<>>
    /\ UNCHANGED <<block_number, events, extrinsics, fn_input, fn_result, tasks,
                   stream, output_file, file, stdout>>

\* MaxRuns calls of get_all_transfers_at_block_hash, one after the other, on a
\* block of at most MaxEvents events and MaxExtrinsics extrinsics.
InitRuns ==
    /\ block_number \in BlockNumbers
    /\ events \in SeqsUpTo(AllEventSet, MaxEvents)
    /\ extrinsics \in SeqsUpTo(AllExtrinsicSet, MaxExtrinsics)
    /\ pc = "in_start"
    /\ i = 1
    /\ last_issuance_event = None
    /\ in_output = <<>>
    /\ in_log = <<>>
    /\ j = 1
    /\ out_output = <<>>
    /\ out_log = <<>>
    /\ all_output = <<>>
    /\ fn_input = <<>>
    /\ fn_result = <<>>
    /\ stdout = <<>>
    /\ file = <<>>
    /\ output_file = FALSE
    /\ stream = <<>>
    /\ tasks = <<>>
    /\ returned = <<>>

NextRuns == NextAll \/ AllCallAgain

SpecRuns == InitRuns /\ [][NextRuns]_vars

\* C22 (as stated): two calls on the same block (same events, extrinsics and
\* storage contents) that return a record list return the same list.
C22_SameBlockSameList ==
    pc = "all_done" => \A n \in 1..Len(returned) : returned[n].ok => returned[n].val = all_output

\* C22 witness: the second call returned a list that differs from the list of
\* the first, and none of its own metadata lookups had failed.
C22_Witness ==
    /\ pc = "all_done"
    /\ ~MetadataFetchFailed
    /\ Len(returned) = 1
    /\ returned[1].ok /\ returned[1].lookup_failed
    /\ returned[1].val # all_output

----------------------------------------------------------------------------
(* Extractions of several blocks running at once.  Each is a task spawned  *)
(* at cli.rs:109 with the locals of its own call of                        *)
(* get_incoming_xcm_transfers_at_block_hash.                               *)

MaxTasks == 2

MaxTaskEvents == 2

\* The events of the blocks the tasks extract.
TaskEventSet ==
    { Minted("Finalization", TRUE, "acc_X", 12),
      Processed("Finalization", TRUE, Parent, TRUE) }

\* incoming_parser.rs:59-66: the locals of one call.  last_issuance_event holds
\* the event; fetches is the history of the lookups made for the events
\* scanned ("none": no lookup).
Locals(bn, block_events, at, next, last, output, fetches) ==
    [block_number |-> bn, events |-> block_events, pc |-> at, i |-> next,
     last_issuance_event |-> last, output |-> output, fetches |-> fetches]

\* cli.rs:109-111: a task that has not yet run
Spawned(bn, block_events) == Locals(bn, block_events, "in_start", 1, None, <<>>, <<>>)

\* A bug to tell from pending_of: the pending issuance is one slot all the
\* calls share.
pending_shared(ts, k) == ts[1].last_issuance_event

\* incoming_parser.rs:66: `let mut last_issuance_event`, a local of the call
pending_of(ts, k) == ts[k].last_issuance_event

\* incoming_parser.rs:68-94: one iteration of the loop on the locals t, reading
\* the pending issuance from pending.
scan_event(t, pending, fetch) ==
    LET event == t.events[t.i]
        arm == EventArm(event)
    IN CASE arm = "issuance" ->
              [t EXCEPT !.last_issuance_event = store_issuance(pending, event),
                        !.i = t.i + 1,
                        !.fetches = Append(t.fetches, "none")]
         [] arm = "processed" ->
              LET tk == take(pending)
                  payload == generate_xcm_received_payload(fetch, t.block_number, tk.taken, event)
                  then == on_payload(t.output, payload)
              IN [t EXCEPT !.last_issuance_event = tk.left,
                           !.output = then.output,
                           !.pc = then.pc,
                           !.i = t.i + 1,
                           !.fetches = Append(t.fetches,
                                              IF payload.fetches = 0 THEN "none" ELSE fetch)]
         [] OTHER ->
              [t EXCEPT !.i = t.i + 1, !.fetches = Append(t.fetches, "none")]

\* incoming_parser.rs:59-62 in task k: the block and its events are fetched
TaskFetchBlock(k) ==
    /\ tasks[k].pc = "in_start"
    /\ \E fetched \in BOOLEAN :
           tasks' = [tasks EXCEPT ![k].pc = IF fetched THEN "in_scan" ELSE "in_failed"]

\* incoming_parser.rs:68-94 in task k: one iteration of its loop
TaskScanEvent(k) ==
    /\ tasks[k].pc = "in_scan"
    /\ tasks[k].i <= Len(tasks[k].events)
    /\ \E fetch \in FetchOutcomes :
           tasks' = [tasks EXCEPT ![k] = scan_event(tasks[k], pending_of(tasks, k), fetch)]

\* incoming_parser.rs:96 in task k: Ok(output)
TaskReturn(k) ==
    /\ tasks[k].pc = "in_scan"
    /\ tasks[k].i > Len(tasks[k].events)
    /\ tasks' = [tasks EXCEPT ![k].pc = "in_done"]

\* One step of one of the tasks; nothing but the locals of the task changes.
TaskStep ==
    /\ pc = "tasks"
    /\ \E k \in 1..Len(tasks) : TaskFetchBlock(k) \/ TaskScanEvent(k) \/ TaskReturn(k)
    /\ UNCHANGED <<block_number, events, extrinsics, pc, i, last_issuance_event,
                   in_output, in_log, j, out_output, out_log, all_output,
                   fn_input, fn_result, returned, stream, output_file, file, stdout>>

\* MaxTasks tasks, each spawned on a block of at most MaxTaskEvents events.
InitConcurrent ==
    /\ block_number \in BlockNumbers
    /\ events = <<>>
    /\ extrinsics = <<>>
    /\ pc = "tasks"
    /\ i = 1
    /\ last_issuance_event = None
    /\ in_output = <<>>
    /\ in_log = <<>>
    /\ j = 1
    /\ out_output = <<>>
    /\ out_log = <<>>
    /\ all_output = <<>>
    /\ fn_input = <<>>
    /\ fn_result = <<>>
    /\ returned = <<>>
    /\ \E blocks \in [1..MaxTasks -> SeqsUpTo(TaskEventSet, MaxTaskEvents)] :
           tasks = [k \in 1..MaxTasks |-> Spawned(block_number + k, blocks[k])]
    /\ stream = <<>>
    /\ output_file = FALSE
    /\ file = <<>>
    /\ stdout = <<>>

NextConcurrent == TaskStep

SpecConcurrent == InitConcurrent /\ [][NextConcurrent]_vars

\* The locals of a call that scans the first n events of the block of t on its
\* own, the lookups having the outcomes they had in t.
RECURSIVE ScanAlone(_, _)
ScanAlone(t, n) ==
    IF n = 0
    THEN [Spawned(t.block_number, t.events) EXCEPT !.pc = "in_scan"]
    ELSE LET before == ScanAlone(t, n - 1)
         IN scan_event(before, before.last_issuance_event,
                       IF t.fetches[n] = "none" THEN "fetched" ELSE t.fetches[n])

\* Task k is past the fetch of its block.
Scanning(k) == tasks[k].pc \in {"in_scan", "in_done"}

\* C23: whatever the other tasks did in between, the records and the pending
\* issuance of a task are those of a call that scans the same events of the
\* same block on its own.
C23_TasksIndependent ==
    \A k \in 1..Len(tasks) :
        Scanning(k) =>
            LET alone == ScanAlone(tasks[k], tasks[k].i - 1)
            IN /\ tasks[k].output = alone.output
               /\ tasks[k].last_issuance_event = alone.last_issuance_event

\* C23 witness: the Minted event of task 1 is pending, its Processed event is
\* still to be scanned, and task 2 has scanned the Processed event of its own
\* block and returned without a record.
C23_Witness ==
    /\ Len(tasks) = 2
    /\ tasks[1].events = <<Minted("Finalization", TRUE, "acc_X", 12),
                           Processed("Finalization", TRUE, Parent, TRUE)>>
    /\ tasks[2].events = <<Processed("Finalization", TRUE, Parent, TRUE)>>
    /\ tasks[2].pc = "in_done" /\ tasks[2].output = <<>>
    /\ tasks[1].i = 2 /\ tasks[1].last_issuance_event # None

----------------------------------------------------------------------------
(* cli.rs: Mode::SubscribeToNewTransfers                                   *)

\* The variables of the single calls, which subscribe mode leaves alone.
engine_vars ==
    <<block_number, events, extrinsics, i, last_issuance_event, in_output, in_log,
      j, out_output, out_log, all_output, fn_input, fn_result, returned>>

\* A finalized block: its hash and the number of records an extraction of it
\* finds when none of its lookups fails.
Block(hash, records) == [hash |-> hash, records |-> records]

\* The most records a block of the stream holds.
MaxRecords == 2

\* The list of n records of the block.
TransfersOf(block, n) == [m \in 1..n |-> <<block.hash, m>>]

\* helpers.rs:97-115: what get_all_transfers_at_block_hash may return for the
\* block: an error when the block cannot be fetched, or the list of its
\* records, short of those whose metadata lookup failed.
ExtractionOutcomes(block) == {Err("Subxt")} \cup {Ok(TransfersOf(block, n)) : n \in 0..block.records}

\* cli.rs:109-131: the locals of a spawned task; extraction is None until
\* get_all_transfers_at_block_hash has returned.
Task(block, at, extraction) == [block |-> block, pc |-> at, extraction |-> extraction]

\* cli.rs:118: serde_json::to_string_pretty(&transfers), one JSON array
Json(hash, transfers) == <<"json", hash, transfers>>

\* cli.rs:107
ReceivedLine(hash) == <<"Received block", hash>>

\* cli.rs:125
FoundLine(hash) == <<"xcm transfer found at block", hash>>

Newline == <<"newline">>

\* cli.rs:103-109: the stream yields Some(Ok(block)); the line of :107 is
\* printed and the task of the block is spawned.
SubscribeReceive ==
    /\ pc = "subscribed"
    /\ stream # <<>> /\ Head(stream).ok
    /\ stdout' = Append(stdout, ReceivedLine(Head(stream).val.hash))
    /\ tasks' = Append(tasks, Task(Head(stream).val, "extracting", None))
    /\ stream' = Tail(stream)
    /\ UNCHANGED <<engine_vars, output_file, pc, file>>

\* A bug to tell from exec_result: the error that ended the loop is returned.
exec_result_reports(last) ==
    IF IsSome(last) THEN Unwrap(last) ELSE Ok(<<>>)

\* cli.rs:135: Ok(()), whatever the item `last` that ended the loop: None, or
\* Some(Err(..)).
exec_result(last) == Ok(<<>>)

\* cli.rs:103 and :135: the stream yields None or Some(Err(..)); the loop ends
\* and exec returns Ok(()).
SubscribeEnd ==
    /\ pc = "subscribed"
    /\ IF stream = <<>> THEN TRUE ELSE ~Head(stream).ok
    /\ pc' = "exec_returned"
    /\ returned' = <<exec_result(IF stream = <<>> THEN None ELSE Some(Head(stream)))>>
    /\ UNCHANGED <<block_number, events, extrinsics, i, last_issuance_event,
                   in_output, in_log, j, out_output, out_log, all_output, fn_input,
                   fn_result, output_file, tasks, stream, file, stdout>>

\* main.rs:13-18: main returns and the runtime is dropped; the tasks that are
\* waiting at the .await of cli.rs:112 are dropped with it, the ones that are
\* past it run to their end first.
RuntimeShutdown ==
    /\ pc = "exec_returned"
    /\ \A k \in 1..Len(tasks) : tasks[k].pc \in {"extracting", "finished"}
    /\ pc' = "exited"
    /\ tasks' = [k \in 1..Len(tasks) |->
                    IF tasks[k].pc = "extracting"
                    THEN [tasks[k] EXCEPT !.pc = "cancelled"] ELSE tasks[k]]
    /\ UNCHANGED <<engine_vars, output_file, stream, file, stdout>>

\* cli.rs:110-116: the extraction of task k returns; the task goes on with a
\* list that is not empty and returns otherwise.
TaskExtract(k) ==
    /\ tasks[k].pc = "extracting"
    /\ \E outcome \in ExtractionOutcomes(tasks[k].block) :
           tasks' = [tasks EXCEPT ![k] =
                        Task(tasks[k].block,
                             IF outcome.ok /\ outcome.val # <<>> THEN "extracted" ELSE "finished",
                             Some(outcome))]
    /\ UNCHANGED <<engine_vars, output_file, pc, stream, file, stdout>>

\* cli.rs:128-130: no output file, the JSON array is printed
TaskPrint(k) ==
    /\ tasks[k].pc = "extracted"
    /\ ~output_file
    /\ stdout' = Append(stdout, Json(tasks[k].block.hash, Unwrap(tasks[k].extraction).val))
    /\ tasks' = [tasks EXCEPT ![k].pc = "finished"]
    /\ UNCHANGED <<engine_vars, output_file, pc, stream, file>>

\* cli.rs:123-125: the output file is opened for appending; when that fails
\* the task ends, when it succeeds the line of :125 is printed.
TaskOpen(k) ==
    /\ tasks[k].pc = "extracted"
    /\ output_file
    /\ \E opened \in BOOLEAN :
           /\ tasks' = [tasks EXCEPT ![k].pc = IF opened THEN "opened" ELSE "finished"]
           /\ stdout' = IF opened THEN Append(stdout, FoundLine(tasks[k].block.hash))
                        ELSE stdout
    /\ UNCHANGED <<engine_vars, output_file, pc, stream, file>>

\* cli.rs:126: writeln!(file, "{}", json) writes the array and the line end
\* with one write each; this is the first, whose error is dropped by `let _`.
TaskWriteJson(k) ==
    /\ tasks[k].pc = "opened"
    /\ \E written \in BOOLEAN :
           /\ file' = IF written
                      THEN Append(file, Json(tasks[k].block.hash, Unwrap(tasks[k].extraction).val))
                      ELSE file
           /\ tasks' = [tasks EXCEPT ![k].pc = IF written THEN "json_written" ELSE "finished"]
    /\ UNCHANGED <<engine_vars, output_file, pc, stream, stdout>>

\* cli.rs:126: the second write of writeln!, the line end
TaskWriteNewline(k) ==
    /\ tasks[k].pc = "json_written"
    /\ \E written \in BOOLEAN :
           file' = IF written THEN Append(file, Newline) ELSE file
    /\ tasks' = [tasks EXCEPT ![k].pc = "finished"]
    /\ UNCHANGED <<engine_vars, output_file, pc, stream, stdout>>

\* One step of one of the spawned tasks, while the runtime lives.
SubscribeTaskStep ==
    /\ pc \in {"subscribed", "exec_returned"}
    /\ \E k \in 1..Len(tasks) :
           \/ TaskExtract(k)
           \/ TaskPrint(k)
           \/ TaskOpen(k)
           \/ TaskWriteJson(k)
           \/ TaskWriteNewline(k)

\* The items of the stream: an error, or a block of up to MaxRecords records.
StreamItems(hash) == {Err("Subxt")} \cup {Ok(Block(hash, n)) : n \in 0..MaxRecords}

\* cli.rs:96-101: the subscription is made, with or without an output file;
\* the stream is to yield at most MaxTasks items, then None.
InitSubscribe ==
    /\ block_number \in BlockNumbers
    /\ events = <<>>
    /\ extrinsics = <<>>
    /\ pc = "subscribed"
    /\ i = 1
    /\ last_issuance_event = None
    /\ in_output = <<>>
    /\ in_log = <<>>
    /\ j = 1
    /\ out_output = <<>>
    /\ out_log = <<>>
    /\ all_output = <<>>
    /\ fn_input = <<>>
    /\ fn_result = <<>>
    /\ returned = <<>>
    /\ tasks = <<>>
    /\ \E n \in 0..MaxTasks :
           \E items \in [1..n -> UNION {StreamItems(block_number + k) : k \in 1..n}] :
               /\ \A k \in 1..n : items[k] \in StreamItems(block_number + k)
               /\ stream = items
    /\ output_file \in BOOLEAN
    /\ file = <<>>
    /\ stdout = <<>>

NextSubscribe ==
    \/ SubscribeReceive
    \/ SubscribeEnd
    \/ RuntimeShutdown
    \/ SubscribeTaskStep

SpecSubscribe == InitSubscribe /\ [][NextSubscribe]_vars

\* The JSON arrays of the block of hash in a sequence of lines or pieces.
JsonOf(written, hash) ==
    {n \in 1..Len(written) : written[n][1] = "json" /\ written[n][2] = hash}

\* Everything printed or written for the block of hash.
OutputOf(hash) ==
    {n \in 1..Len(stdout) : Len(stdout[n]) >= 2 /\ stdout[n][2] = hash}
        \cup {-n : n \in JsonOf(file, hash)}

\* The extraction of task k returned a list with at least one record.
YieldedRecords(k) ==
    /\ tasks[k].extraction # None
    /\ Unwrap(tasks[k].extraction).ok
    /\ Unwrap(tasks[k].extraction).val # <<>>

\* The extraction of task k returned the empty list.
YieldedNothing(k) ==
    /\ tasks[k].extraction # None
    /\ Unwrap(tasks[k].extraction).ok
    /\ Unwrap(tasks[k].extraction).val = <<>>

\* C24 (as stated): once every task has ended, each delivered block whose
\* extraction yielded records has exactly one JSON array in the output file,
\* or printed when there is no output file, and a block whose extraction
\* yielded the empty list has no output at all.
C24_OneArrayOrNothing ==
    pc = "exited" =>
        \A k \in 1..Len(tasks) :
            LET hash == tasks[k].block.hash
            IN /\ YieldedRecords(k) =>
                      Cardinality(JsonOf(IF output_file THEN file ELSE stdout, hash)) = 1
               /\ YieldedNothing(k) => OutputOf(hash) = {}

\* C24 witness: without an output file, a block whose extraction yielded the
\* empty list has a line printed and no JSON array.
C24_Witness ==
    /\ pc = "exited"
    /\ ~output_file
    /\ \E k \in 1..Len(tasks) :
           /\ YieldedNothing(k)
           /\ tasks[k].block.records = 0
           /\ ReceivedLine(tasks[k].block.hash) \in {stdout[n] : n \in 1..Len(stdout)}
           /\ JsonOf(stdout, tasks[k].block.hash) = {}

\* The place of the block of hash in the order of delivery: the index of its task.
DeliveryIndex(hash) == CHOOSE k \in 1..Len(tasks) : tasks[k].block.hash = hash

\* The places of the JSON arrays in the output file.
JsonPlaces == {n \in 1..Len(file) : file[n][1] = "json"}

\* C30 (as stated): with an output file, the JSON arrays of the blocks are in
\* the file in the order in which the stream delivered the blocks.
C30_ArraysInDeliveryOrder ==
    output_file =>
        \A a \in JsonPlaces, b \in JsonPlaces :
            a < b => DeliveryIndex(file[a][2]) < DeliveryIndex(file[b][2])

\* C30 witness: both tasks have ended and the array of the block delivered
\* second is in the file before the array of the block delivered first.
C30_Witness ==
    /\ output_file
    /\ pc = "exited"
    /\ Len(tasks) = 2
    /\ \E a \in JsonPlaces, b \in JsonPlaces :
           /\ a < b
           /\ file[a][2] = tasks[2].block.hash
           /\ file[b][2] = tasks[1].block.hash

----------------------------------------------------------------------------
(* The outgoing scan on local assets whose GeneralIndex is any u128        *)

\* The local asset {0, [PalletInstance(50), GeneralIndex(hi * 2^32 + lo)]}.
LocalAsset(hi, lo) ==
    Asset("Concrete",
          Location(0, <<PalletInstance(AssetsPalletInstance), GeneralIndex(U128(hi, lo))>>),
          "Fungible", 22)

\* Calls of the three shapes, each with one local asset: 1984, 1337 (both in
\* Assets.Metadata), 42 (not in it), and the same with 2^32 added.
CastExtrinsicSet ==
    {Extrinsic(c, TRUE, DestPara2004, BeneficiaryY, Versioned("V3", <<LocalAsset(hi, lo)>>),
               SignedBy("acc_X")) :
        c \in Calls, hi \in {0, 1}, lo \in {1984, 1337, 42}}

\* A call of get_outgoing_xcm_transfers_at_block_hash on a block of at most
\* MaxExtrinsics extrinsics of CastExtrinsicSet.
InitCast ==
    /\ block_number \in BlockNumbers
    /\ events = <<>>
    /\ extrinsics \in SeqsUpTo(CastExtrinsicSet, MaxExtrinsics)
    /\ pc = "out_start"
    /\ i = 1
    /\ last_issuance_event = None
    /\ in_output = <<>>
    /\ in_log = <<>>
    /\ j = 1
    /\ out_output = <<>>
    /\ out_log = <<>>
    /\ all_output = <<>>
    /\ fn_input = <<>>
    /\ fn_result = <<>>
    /\ returned = <<>>
    /\ tasks = <<>>
    /\ stream = <<>>
    /\ output_file = FALSE
    /\ file = <<>>
    /\ stdout = <<>>

SpecCast == InitCast /\ [][NextOutgoing]_vars

\* The name Assets.Metadata gives the id v, a u128: the ids of the map are u32,
\* so it has no entry for a v of 2^32 or more.
NameStoredFor(v) ==
    IF v.hi = 0
    THEN extract_asset_metadata_values("fetched", v.lo).val.asset_name
    ELSE <<"no entry", v.hi, v.lo>>

\* C25 (as stated): the record of an asset at
\* {0, [PalletInstance(50), GeneralIndex(v)]} carries what Assets.Metadata
\* holds for the id v, for every u128 v: the id looked up is v.
C25_LookupIdIsGeneralIndex ==
    \A x \in ScannedX :
        KnownCallDecoded(x) /\ ~FetchFailedAt(x) =>
            \A n \in 1..out_log[x].emitted :
                LET asset == SupportedAssetsOf(x)[n]
                IN IsLocalAsset(asset) =>
                       RecordsOfX(x)[n].asset = NameStoredFor(asset.loc.interior[2][2])

\* C25 witness: the record of the asset of GeneralIndex 2^32 + 1984 carries the
\* name of asset 1984.
C25_Witness ==
    \E x \in ScannedX :
        /\ extrinsics[x].assets.value = <<LocalAsset(1, 1984)>>
        /\ out_log[x].emitted = 1
        /\ RecordsOfX(x)[1].asset = <<"Tether USD">>

----------------------------------------------------------------------------
(* to_decimal_f64                                                          *)

\* Limbs enough for 10^MaxDecimals times a u128.
WideLimbs == 3 * U128Limbs

\* The limbs of x followed by zero limbs, WideLimbs in all.
Widen(x) == [k \in 1..WideLimbs |-> IF k <= Len(x) THEN x[k] ELSE 0]

\* x * 10^exp, without a bound on the width.
RECURSIVE TimesPow10(_, _)
TimesPow10(x, exp) ==
    IF exp = 0
    THEN x
    ELSE Only({ MulSmall(before, 10 ^ Tens(exp)).val :
                before \in {TimesPow10(x, exp - Tens(exp))} })

\* The power of ten itself.
TruePow10(exp) == TimesPow10(FromNat(1, WideLimbs), exp)

\* The quotient q equals mantissa / 10^scale: q.value * 10^scale =
\* mantissa * q.factor, and the factor is not zero.
EqualsDecimal(q, mantissa, scale, decimals) ==
    /\ Widen(q.factor) = TruePow10(decimals)
    /\ TimesPow10(Widen(q.value), scale) = TimesPow10(FromNat(mantissa, WideLimbs), decimals)

\* C26 (as stated): to_decimal_f64(value, decimals) returns value / 10^decimals
\* for every value and every decimals; it returns 0.00001 for
\* (10_000_000_000_000, 18), 123.456789 for (123_456_789, 6) and 123.0 for
\* (123, 0); what it returns is never negative.
C26_ValueOverPowerOfTen ==
    Returned("to_decimal_f64") =>
        /\ Unwrap(fn_result).ok
        /\ Unwrap(fn_result).val.value = fn_input.value
        /\ Widen(Unwrap(fn_result).val.factor) = TruePow10(fn_input.decimals)
        /\ fn_input.value = FromNat(123, U128Limbs) /\ fn_input.decimals = 0 =>
               EqualsDecimal(Unwrap(fn_result).val, 123, 0, 0)
        /\ fn_input.value = FromNat(123456789, U128Limbs) /\ fn_input.decimals = 6 =>
               EqualsDecimal(Unwrap(fn_result).val, 123456789, 6, 6)
        /\ fn_input.value = TenTrillion /\ fn_input.decimals = 18 =>
               EqualsDecimal(Unwrap(fn_result).val, 1, 5, 18)

\* C26 witness: in a build without overflow checks to_decimal_f64(123, 39)
\* returned 123 over a factor that is not 10^39.
C26_Witness ==
    /\ Returned("to_decimal_f64")
    /\ fn_input.value = FromNat(123, U128Limbs)
    /\ fn_input.decimals = 39
    /\ ~fn_input.overflow_checks
    /\ Unwrap(fn_result).ok
    /\ Widen(Unwrap(fn_result).val.factor) # TruePow10(39)

----------------------------------------------------------------------------
(* Unsupported versions                                                    *)

\* Extrinsic x is a known transfer call whose arguments decode and whose
\* destination, beneficiary or asset list is in a version other than V3.
UnsupportedVersion(x) ==
    LET e == extrinsics[x]
    IN /\ e.call \in Calls
       /\ e.decodes
       /\ \/ e.dest.version # "V3"
          \/ e.beneficiary.version # "V3"
          \/ e.assets.version # "V3"

\* The attempts made on extrinsic x with the type of its call.
OwnAttempts(x) ==
    {k \in DOMAIN out_log[x].attempts : out_log[x].attempts[k].shape = extrinsics[x].call}

\* The errors of the attempts that failed for another reason than the version
\* of an argument.
OtherDecodeErrors ==
    {out_log[y].attempts[k].err : <<y, k>> \in
        {p \in ScannedX \X (1..3) :
            /\ p[2] \in DOMAIN out_log[p[1]].attempts
            /\ ~out_log[p[1]].attempts[p[2]].ok
            /\ ~(UnsupportedVersion(p[1]) /\ p[2] \in OwnAttempts(p[1]))}}

\* C27 (as stated): a known call with a destination, a beneficiary or an asset
\* list in a version other than V3 fails at the attempt made with its type,
\* with an error that no other decode problem produces; it is never a success
\* without records.
C27_UnsupportedVersionNamed ==
    \A x \in ScannedX :
        UnsupportedVersion(x) =>
            /\ OwnAttempts(x) # {}
            /\ \A k \in OwnAttempts(x) :
                   /\ ~out_log[x].attempts[k].ok
                   /\ out_log[x].attempts[k].err \notin OtherDecodeErrors

\* C27 witness: a scan that ended went through a known call with an asset list
\* in another version, whose attempt succeeded without a record, next to an
\* extrinsic that does not decode and failed with GeneratePayloadFailed.
C27_Witness ==
    /\ pc = "out_done"
    /\ \E x \in ScannedX :
           /\ UnsupportedVersion(x)
           /\ extrinsics[x].assets.version # "V3"
           /\ \E k \in OwnAttempts(x) : out_log[x].attempts[k].ok
           /\ out_log[x].emitted = 0
    /\ "GeneratePayloadFailed" \in OtherDecodeErrors

----------------------------------------------------------------------------
(* The incoming records and the Processed events                           *)

\* The number of records the scan has pushed is the number the history counts.
PushedAreCounted == Len(in_output) = Count(Len(in_log), EmittedAt)

\* C28: the incoming records of a block are at most as many as its
\* finalization-phase Processed events that report success; each Processed
\* event yields at most one record and no other event yields any; the records
\* are in the order of the Processed events that produced them: the n-th
\* event that yielded a record yielded the n-th record, which carries the
\* origin of that event and the account and amount of the issuance handed
\* over with it.
C28_OnePerProcessedInOrder ==
    /\ PushedAreCounted
    /\ Len(in_output) <= Count(Len(in_log), SuccessfulProcessed)
    /\ \A p \in Scanned :
           /\ in_log[p].emitted \in {0, 1}
           /\ EmittedAt(p) =>
                  /\ SuccessfulProcessed(p)
                  /\ in_log[p].issuance \in 1..(p - 1)
                  /\ RecordOf(p).origin_chain = events[p].origin
                  /\ RecordOf(p).receiver = <<"ss58", 0, events[in_log[p].issuance].who>>
                  /\ RecordOf(p).amount.value = events[in_log[p].issuance].amount

\* C28 witness: a scan that ended pushed two records, the first for a
\* Processed event of the relay chain and the second for a later one of a
\* sibling.
C28_Witness ==
    /\ pc = "in_done"
    /\ Len(in_output) = 2
    /\ \E p \in Scanned, q \in Scanned :
           /\ p < q
           /\ EmittedAt(p) /\ events[p].origin = Parent
           /\ EmittedAt(q) /\ events[q].origin = Sibling(2004)


----------------------------------------------------------------------------
(* The records of one extrinsic                                            *)

\* The ways to place the records of an extrinsic on its asset list: record n
\* on asset at[n], a later record on a later asset, each with the amount of its
\* asset.
Placements(records, assets) ==
    {at \in [1..Len(records) -> 1..Len(assets)] :
        /\ \A n \in DOMAIN at, m \in DOMAIN at : n < m => at[n] < at[m]
        /\ \A n \in DOMAIN at : records[n].amount.value = assets[at[n]].amount}

\* C29: the records of one extrinsic carry the block number of the block and
\* one destination_chain, one sender and one beneficiary; they are at most as
\* many as the assets of the call, no two for one asset, and they follow the
\* order of the asset list.
C29_RecordsOfOneExtrinsic ==
    \A x \in ScannedX :
        out_log[x].emitted > 0 =>
            \E records \in {RecordsOfX(x)} :
                /\ \A n \in 1..Len(records) :
                       /\ records[n].block_number = block_number
                       /\ records[n].destination_chain = records[1].destination_chain
                       /\ records[n].sender = records[1].sender
                       /\ records[n].beneficiary = records[1].beneficiary
                /\ Len(records) = out_log[x].emitted
                /\ Len(records) <= Len(extrinsics[x].assets.value)
                /\ Placements(records, extrinsics[x].assets.value) # {}

\* C29 witness: a scan that ended pushed two records for one extrinsic of two
\* different assets.
C29_Witness ==
    /\ pc = "out_done"
    /\ \E x \in ScannedX :
           /\ out_log[x].emitted = 2
           /\ RecordsOfX(x)[1].asset # RecordsOfX(x)[2].asset
           /\ RecordsOfX(x)[1].amount.value # RecordsOfX(x)[2].amount.value

----------------------------------------------------------------------------
(* The end of the subscribe loop                                           *)

\* exec has returned.
ExecReturned == pc \in {"exec_returned", "exited"}

\* The stream is at its end or at an item that is an error.
AtErrorOrEnd == IF stream = <<>> THEN TRUE ELSE ~Head(stream).ok

\* A step that takes an item off the stream takes its first item, which is a
\* block, and spawns the task of that block.
TakesNextBlock ==
    /\ stream # <<>>
    /\ Head(stream).ok
    /\ stream' = Tail(stream)
    /\ Len(tasks') = Len(tasks) + 1
    /\ tasks'[Len(tasks')].block = Head(stream).val

\* C31: the loop takes the blocks of the stream one by one, in order, and ends
\* at the first item that is an error or at the end of the stream: once exec
\* has returned the item it stopped at is still the first of the stream, no
\* item is taken and no task is spawned any more; exec returned Ok(()) and
\* every line printed is the line of a received block, of a block found or a
\* JSON array.
C31_StopsAtFirstErrorOrEnd ==
    /\ [](ExecReturned =>
            /\ AtErrorOrEnd
            /\ returned = <<Ok(<<>>)>>
            /\ \A n \in 1..Len(stdout) :
                   \/ stdout[n][1] = "json"
                   \/ \E k \in 1..Len(tasks) :
                          stdout[n] \in {ReceivedLine(tasks[k].block.hash),
                                         FoundLine(tasks[k].block.hash)})
    /\ [][/\ ExecReturned => stream' = stream /\ Len(tasks') = Len(tasks)
          /\ stream' # stream \/ Len(tasks') # Len(tasks) => TakesNextBlock]_vars

\* C31 witness: the process ended on a stream whose first item was an error
\* and whose second item, a block with two records, was never taken.
C31_Witness ==
    /\ pc = "exited"
    /\ Len(stream) = 2
    /\ ~stream[1].ok
    /\ stream[2].ok /\ stream[2].val.records = 2
    /\ tasks = <<>>
    /\ returned = <<Ok(<<>>)>>

----------------------------------------------------------------------------
(* The factor of to_decimal_f64                                            *)

\* C32 (as stated): for every decimals, 10u128.pow(decimals) does not overflow
\* and is 10^decimals: to_decimal_f64 returns, and the divisor of what it
\* returns is that power of ten.
C32_FactorIsPowerOfTen ==
    Returned("to_decimal_f64") =>
        /\ ~pow10_u128(fn_input.decimals).overflowed
        /\ Widen(pow10_u128(fn_input.decimals).val) = TruePow10(fn_input.decimals)
        /\ Unwrap(fn_result).ok
        /\ Unwrap(fn_result).val.factor = pow10_u128(fn_input.decimals).val

\* C32 witness: in a build with overflow checks to_decimal_f64(123456789, 39)
\* panicked, 10^39 being more than a u128 holds.
C32_Witness ==
    /\ Returned("to_decimal_f64")
    /\ fn_input.value = FromNat(123456789, U128Limbs)
    /\ fn_input.decimals = 39
    /\ fn_input.overflow_checks
    /\ pow10_u128(39).overflowed
    /\ ~pow10_u128(38).overflowed
    /\ Unwrap(fn_result) = Err("Panic")
=============================================================================
